---- MODULE Spec2Model ----
(***************************************************************************)
(* TKGI application tracker: the aggregation and scoring engine of         *)
(* scripts/aggregate-data.py (class DataAggregator) and the consolidation  *)
(* of the foundations' reports of scripts/aggregate-cross-foundation.py    *)
(* (class CrossFoundationAggregator).                                      *)
(*                                                                         *)
(* Encoding of Python values                                               *)
(*   str            a sequence of one-character strings where the code     *)
(*                  looks inside the string (namespace names, application  *)
(*                  identifiers, timestamps), a TLA+ string otherwise      *)
(*   Optional[x]    None is <<>>, a present value v is <<v>>               *)
(*   dict           a function; a missing key is a key outside DOMAIN      *)
(*   set            a set;  list  a sequence                               *)
(***************************************************************************)
EXTENDS Integers, Sequences, FiniteSets, TLC

VARIABLES data, pc, idx, apps, clusters, summary, arg, ret,
          reports_dir, foundation_data, apps_df, foundation_stats, clusters_df, migration_df,
          summary_df, saved,
          runs, app_map

\* the state of a consolidation run (scripts/aggregate-cross-foundation.py)
conVars == <<reports_dir, foundation_data, apps_df, foundation_stats, clusters_df, migration_df,
             summary_df, saved>>

vars == <<data, pc, idx, apps, clusters, summary, arg, ret, conVars, runs, app_map>>

(***************************************************************************)
(* Bounds of the model                                                     *)
(***************************************************************************)
MaxRecords == 2
MaxNameLen == 9
\* the most foundation directories under the reports directory
MaxFoundations == 2

(***************************************************************************)
(* Python helpers                                                          *)
(***************************************************************************)
None == <<>>
Some(v) == <<v>>
IsNone(o) == o = <<>>
Val(o) == o[1]

\* dict.get(key, default)
Get(d, key, default) == IF key \in DOMAIN d THEN d[key] ELSE default

\* dict[key] = value (adds the key when it is missing)
Put(d, key, value) == [k \in (DOMAIN d) \cup {key} |-> IF k = key THEN value ELSE d[k]]

Without(d, key) == [k \in (DOMAIN d) \ {key} |-> d[k]]

Max2(a, b) == IF a >= b THEN a ELSE b
Min2(a, b) == IF a <= b THEN a ELSE b

Alpha == {"a","b","c","d","e","f","g","h","i","j","k","l","m","n","o","p","q","r","s","t","u","v","w","x","y","z","A","B","C","D","E","F","G","H","I","J","K","L","M","N","O","P","Q","R","S","T","U","V","W","X","Y","Z"}
Digit == {"0","1","2","3","4","5","6","7","8","9"}

\* the string literals of the source
Unknown == <<"u","n","k","n","o","w","n">>
Hyphen == <<"-">>

\* length of the longest run of characters of class C that starts at position start
RunLen(s, start, C) ==
  CHOOSE n \in 0..(Len(s) + 1 - start) :
    /\ \A k \in start..(start + n - 1) : s[k] \in C
    /\ (start + n > Len(s) \/ s[start + n] \notin C)

\* quantifier \d{4,6} of both patterns
MinDigits == 4
MaxDigits == 6

\* re.match(r'^([a-zA-Z]+)-(\d{4,6})', s): the groups of a match, None otherwise
MatchPattern1(s) ==
  LET a == RunLen(s, 1, Alpha)
      d == IF a + 1 <= Len(s) THEN RunLen(s, a + 2, Digit) ELSE 0
      taken == Min2(d, MaxDigits)
  IN IF a >= 1 /\ a + 1 <= Len(s) /\ s[a + 1] = "-" /\ d >= MinDigits
     THEN Some(<<SubSeq(s, 1, a), SubSeq(s, a + 2, a + 1 + taken)>>)
     ELSE None

\* re.match(r'^([a-zA-Z]+)-([a-zA-Z]+)-(\d{4,6})', s)
MatchPattern2(s) ==
  LET a == RunLen(s, 1, Alpha)
      b == IF a + 1 <= Len(s) THEN RunLen(s, a + 2, Alpha) ELSE 0
      q == a + 1 + b + 1
      d == IF q <= Len(s) THEN RunLen(s, q + 1, Digit) ELSE 0
      taken == Min2(d, MaxDigits)
  IN IF /\ a >= 1 /\ a + 1 <= Len(s) /\ s[a + 1] = "-"
        /\ b >= 1 /\ q <= Len(s) /\ s[q] = "-" /\ d >= MinDigits
     THEN Some(<<SubSeq(s, 1, a), SubSeq(s, a + 2, a + 1 + b), SubSeq(s, q + 1, q + taken)>>)
     ELSE None

\* namespace_name.split('-')[0] and whether split gives more than one part
HasHyphen(s) == \E k \in 1..Len(s) : s[k] = "-"
FirstPart(s) ==
  IF HasHyphen(s)
  THEN SubSeq(s, 1, (CHOOSE k \in 1..Len(s) : s[k] = "-" /\ \A j \in 1..(k - 1) : s[j] # "-") - 1)
  ELSE s

\* '-'.join(match.groups()[:2])
JoinFirstTwo(groups) == groups[1] \o Hyphen \o groups[2]

\* DataAggregator._extract_app_id_from_name
extract_app_id_from_name(namespace_name) ==
  IF ~IsNone(MatchPattern1(namespace_name))
  THEN JoinFirstTwo(Val(MatchPattern1(namespace_name)))
  ELSE IF ~IsNone(MatchPattern2(namespace_name))
  THEN JoinFirstTwo(Val(MatchPattern2(namespace_name)))
  ELSE IF HasHyphen(namespace_name)
  THEN FirstPart(namespace_name)
  ELSE Unknown

(***************************************************************************)
(* Timestamps.  The timestamps of the model are calendar dates YYYY-MM-DD, *)
(* which datetime.fromisoformat accepts; every other string of the input   *)
(* domain makes it raise ValueError.                                       *)
(***************************************************************************)
DigitSeq == <<"0","1","2","3","4","5","6","7","8","9">>
DigitVal(c) == (CHOOSE k \in 1..10 : DigitSeq[k] = c) - 1
Num(s, from, to) ==
  LET RECURSIVE acc(_)
      acc(k) == IF k < from THEN 0 ELSE 10 * acc(k - 1) + DigitVal(s[k])
  IN acc(to)

IsLeap(y) == (y % 4 = 0 /\ y % 100 # 0) \/ y % 400 = 0
DaysInMonth(y, m) ==
  IF m = 2 THEN (IF IsLeap(y) THEN 29 ELSE 28)
  ELSE IF m \in {4, 6, 9, 11} THEN 30 ELSE 31
DaysBeforeMonth(y, m) ==
  LET RECURSIVE before(_)
      before(k) == IF k = 0 THEN 0 ELSE before(k - 1) + DaysInMonth(y, k)
  IN before(m - 1)

\* date.toordinal(): days since 0001-01-01 in the proleptic Gregorian calendar
Ordinal(y, m, d) ==
  LET p == y - 1
  IN p * 365 + (p \div 4) - (p \div 100) + (p \div 400) + DaysBeforeMonth(y, m) + d

\* datetime.fromisoformat(s.replace('Z', '+00:00')): the ordinal of the day, None when it raises
fromisoformat(s) ==
  IF /\ Len(s) = 10
     /\ \A k \in {1, 2, 3, 4, 6, 7, 9, 10} : s[k] \in Digit
     /\ s[5] = "-" /\ s[8] = "-"
  THEN LET y == Num(s, 1, 4)
           m == Num(s, 6, 7)
           d == Num(s, 9, 10)
       IN IF y >= 1 /\ m \in 1..12 /\ d \in 1..DaysInMonth(y, m)
          THEN Some(Ordinal(y, m, d))
          ELSE None
  ELSE None

\* datetime.now(): the day the aggregation runs
Today == <<"2","0","2","6","-","1","1","-","0","5">>

\* (datetime.now(tz) - last_activity_date).days
DaysSince(ordinal) == Val(fromisoformat(Today)) - ordinal

\* code point order of the characters that occur in the model's strings
AsciiOrder == <<"-", "/", "0","1","2","3","4","5","6","7","8","9", ":",
  "A","B","C","D","E","F","G","H","I","J","K","L","M","N","O","P","Q","R","S","T","U","V","W","X","Y","Z",
  "a","b","c","d","e","f","g","h","i","j","k","l","m","n","o","p","q","r","s","t","u","v","w","x","y","z">>
Ord(c) == CHOOSE k \in 1..Len(AsciiOrder) : AsciiOrder[k] = c

\* a > b on Python str
StrGreater(a, b) ==
  \/ \E k \in 1..Min2(Len(a), Len(b)) :
       /\ \A j \in 1..(k - 1) : a[j] = b[j]
       /\ Ord(a[k]) > Ord(b[k])
  \/ Len(a) > Len(b) /\ SubSeq(a, 1, Len(b)) = b

(***************************************************************************)
(* DataAggregator.aggregate_by_application                                 *)
(***************************************************************************)
\* the defaultdict factory
NewApp ==
  [app_id |-> None, namespaces |-> <<>>, foundations |-> {}, environments |-> {},
   total_pods |-> 0, running_pods |-> 0, total_deployments |-> 0, total_services |-> 0,
   clusters |-> {}, last_activity |-> None, is_active |-> FALSE, data_quality |-> "good"]

\* variant: no namespace is treated as a system namespace
IsSystem_never(ns_data) == FALSE

\* if ns_data.get('is_system', False): continue
IsSystem(ns_data) == Get(ns_data, "is_system", FALSE)

\* variant: the identifier is always derived from the namespace name
resolve_app_id_always_derive(ns_data) == extract_app_id_from_name(ns_data["namespace"])

\* app_id = ns_data.get('app_id', 'unknown'), derived from the namespace name when 'unknown'
resolve_app_id(ns_data) ==
  LET app_id == Get(ns_data, "app_id", Unknown)
  IN IF app_id = Unknown
     THEN extract_app_id_from_name(ns_data["namespace"])
     ELSE app_id

\* ns_data['namespace'] raises KeyError
RaisesKeyError(ns_data) == "namespace" \notin DOMAIN ns_data

\* cluster_full, else cluster, else 'unknown'
ClusterName(ns_data) == Get(ns_data, "cluster_full", Get(ns_data, "cluster", "unknown"))

\* namespaces.append, foundations.add, environments.add, clusters.add
AddMembership(app, ns_data) ==
  [app EXCEPT
     !.namespaces = Append(@, ns_data["namespace"]),
     !.foundations = @ \cup {Get(ns_data, "foundation", "unknown")},
     !.environments = @ \cup {Get(ns_data, "environment", "unknown")},
     !.clusters = @ \cup {ClusterName(ns_data)}]

\* variant: the metrics of the latest record replace the rollup
AddMetrics_overwrite(app, ns_data) ==
  [app EXCEPT
     !.total_pods = Get(ns_data, "pod_count", 0),
     !.running_pods = Get(ns_data, "running_pods", 0),
     !.total_deployments = Get(ns_data, "deployment_count", 0),
     !.total_services = Get(ns_data, "service_count", 0)]

\* Aggregate metrics
AddMetrics(app, ns_data) ==
  [app EXCEPT
     !.total_pods = @ + Get(ns_data, "pod_count", 0),
     !.running_pods = @ + Get(ns_data, "running_pods", 0),
     !.total_deployments = @ + Get(ns_data, "deployment_count", 0),
     !.total_services = @ + Get(ns_data, "service_count", 0)]

\* variant: the timestamp of the latest record replaces the stored one
TrackLastActivity_latest(app, ns_data) ==
  LET last_activity == Get(ns_data, "last_activity", <<>>)
  IN IF /\ "last_activity" \in DOMAIN ns_data
        /\ last_activity # <<>>
        /\ last_activity # Unknown
     THEN [app EXCEPT !.last_activity = Some(last_activity)]
     ELSE app

\* Track last activity
TrackLastActivity(app, ns_data) ==
  LET last_activity == Get(ns_data, "last_activity", <<>>)
  IN IF /\ "last_activity" \in DOMAIN ns_data
        /\ last_activity # <<>>
        /\ last_activity # Unknown
        /\ (IsNone(app.last_activity) \/ StrGreater(last_activity, Val(app.last_activity)))
     THEN [app EXCEPT !.last_activity = Some(last_activity)]
     ELSE app

\* not ns_data.get('labels'): the key is missing or the mapping is empty
NoLabels(ns_data) == Get(ns_data, "labels", {}) = {}

\* variant: the quality follows the latest record
CheckDataQuality_latest(app, app_id, ns_data) ==
  IF app_id = Unknown \/ NoLabels(ns_data)
  THEN [app EXCEPT !.data_quality = "incomplete"]
  ELSE [app EXCEPT !.data_quality = "good"]

\* Check data quality
CheckDataQuality(app, app_id, ns_data) ==
  IF app_id = Unknown \/ NoLabels(ns_data)
  THEN [app EXCEPT !.data_quality = "incomplete"]
  ELSE app

\* the accumulator when ns_data['namespace'] raises: with an explicit identifier the
\* record of the application was already created and labelled by apps[app_id]
RaisedIn(appmap, ns_data) ==
  LET app_id == Get(ns_data, "app_id", Unknown)
  IN IF app_id = Unknown
     THEN appmap
     ELSE Put(appmap, app_id, [Get(appmap, app_id, NewApp) EXCEPT !.app_id = Some(app_id)])

\* variant: the record is stored under the namespace name
FoldApplication_by_namespace(appmap, ns_data) ==
  LET app_id == resolve_app_id(ns_data)
      key == ns_data["namespace"]
      app0 == [Get(appmap, key, NewApp) EXCEPT !.app_id = Some(app_id)]
      app1 == AddMembership(app0, ns_data)
      app2 == AddMetrics(app1, ns_data)
      app3 == TrackLastActivity(app2, ns_data)
      app4 == CheckDataQuality(app3, app_id, ns_data)
  IN Put(appmap, key, app4)

\* one iteration of the loop over data for a record that is not skipped
FoldApplication(appmap, ns_data) ==
  LET app_id == resolve_app_id(ns_data)
      app0 == [Get(appmap, app_id, NewApp) EXCEPT !.app_id = Some(app_id)]
      app1 == AddMembership(app0, ns_data)
      app2 == AddMetrics(app1, ns_data)
      app3 == TrackLastActivity(app2, ns_data)
      app4 == CheckDataQuality(app3, app_id, ns_data)
  IN Put(appmap, app_id, app4)

\* variant: the bands include their lower limits
ScaleDeduction_inclusive(app) ==
  IF app.running_pods >= 10 THEN 20 ELSE IF app.running_pods >= 5 THEN 10 ELSE 0

\* if app['running_pods'] > 10 ... elif app['running_pods'] > 5
ScaleDeduction(app) ==
  IF app.running_pods > 10 THEN 20 ELSE IF app.running_pods > 5 THEN 10 ELSE 0

\* Boost score for inactive apps
ActivityBonus(app) ==
  LET days_inactive == Get(app, "days_since_activity", None)
      truthy == ~IsNone(days_inactive) /\ Val(days_inactive) # 0
  IN IF truthy /\ Val(days_inactive) > 60 THEN 20
     ELSE IF truthy /\ Val(days_inactive) > 30 THEN 10 ELSE 0

\* the score before max(0, min(100, score))
RawScore(app) ==
  100
  - (IF app.is_active THEN 30 ELSE 0)
  - ScaleDeduction(app)
  - (IF \E k \in 1..Len(app.environments) : app.environments[k] = "production" THEN 20 ELSE 0)
  - (IF app.total_services > 5 THEN 10 ELSE 0)
  - (IF app.data_quality = "incomplete" THEN 15 ELSE 0)
  + ActivityBonus(app)

\* variant: the score is returned without the final clamp
calculate_migration_readiness_unclamped(app) == RawScore(app)

\* DataAggregator._calculate_migration_readiness
calculate_migration_readiness(app) == Max2(0, Min2(100, RawScore(app)))

\* the orders in which list(a_set) can enumerate the set
Orderings(S) ==
  {q \in [1..Cardinality(S) -> S] : \A x \in S : \E k \in 1..Cardinality(S) : q[k] = x}

ListChoices(app) ==
  {[foundations |-> f, environments |-> e, clusters |-> c] :
     f \in Orderings(app.foundations), e \in Orderings(app.environments),
     c \in Orderings(app.clusters)}

\* Determine if app is active (has activity in last 30 days)
DetermineActivity(app) ==
  IF IsNone(app.last_activity)
  THEN app
  ELSE LET last_activity_date == fromisoformat(Val(app.last_activity))
       IN IF IsNone(last_activity_date)
          THEN Put([app EXCEPT !.is_active = FALSE], "days_since_activity", None)
          ELSE LET days_since_activity == DaysSince(Val(last_activity_date))
               IN Put([app EXCEPT !.is_active = (days_since_activity <= 30)],
                      "days_since_activity", Some(days_since_activity))

\* variant: the score is computed before the activity is determined
FinalizeApp_score_first(app, lists) ==
  LET listed == [app EXCEPT !.foundations = lists.foundations,
                            !.environments = lists.environments,
                            !.clusters = lists.clusters]
  IN DetermineActivity(Put(listed, "migration_readiness", calculate_migration_readiness(listed)))

\* one iteration of the loop over apps.items(), lists being the enumeration orders of the sets
FinalizeApp(app, lists) ==
  LET listed == [app EXCEPT !.foundations = lists.foundations,
                            !.environments = lists.environments,
                            !.clusters = lists.clusters]
      dated == DetermineActivity(listed)
  IN Put(dated, "migration_readiness", calculate_migration_readiness(dated))

(***************************************************************************)
(* DataAggregator.aggregate_by_cluster                                     *)
(***************************************************************************)
NewCluster ==
  [cluster |-> None, foundation |-> None, environment |-> None,
   total_namespaces |-> 0, app_namespaces |-> 0, system_namespaces |-> 0,
   total_pods |-> 0, running_pods |-> 0, applications |-> {}]

\* the application identifier the cluster pass adds, None when it adds none
ClusterAppId(ns_data) ==
  LET app_id == Get(ns_data, "app_id", Unknown)
  IN IF app_id # Unknown THEN Some(app_id) ELSE None

\* variant: a system namespace is counted as a system namespace only
CountNamespace_system_apart(cluster, ns_data) ==
  IF IsSystem(ns_data)
  THEN [cluster EXCEPT !.system_namespaces = @ + 1]
  ELSE [cluster EXCEPT !.total_namespaces = @ + 1, !.app_namespaces = @ + 1,
          !.applications = IF IsNone(ClusterAppId(ns_data)) THEN @
                           ELSE @ \cup {Val(ClusterAppId(ns_data))}]

CountNamespace(cluster, ns_data) ==
  IF IsSystem(ns_data)
  THEN [cluster EXCEPT !.total_namespaces = @ + 1, !.system_namespaces = @ + 1]
  ELSE [cluster EXCEPT !.total_namespaces = @ + 1, !.app_namespaces = @ + 1,
          !.applications = IF IsNone(ClusterAppId(ns_data)) THEN @
                           ELSE @ \cup {Val(ClusterAppId(ns_data))}]

\* variant: only application namespaces add to the pod load of the cluster
AddClusterPods_apps_only(cluster, ns_data) ==
  IF IsSystem(ns_data)
  THEN cluster
  ELSE [cluster EXCEPT
          !.total_pods = @ + Get(ns_data, "pod_count", 0),
          !.running_pods = @ + Get(ns_data, "running_pods", 0)]

AddClusterPods(cluster, ns_data) ==
  [cluster EXCEPT
     !.total_pods = @ + Get(ns_data, "pod_count", 0),
     !.running_pods = @ + Get(ns_data, "running_pods", 0)]

\* one iteration of the loop over data
FoldCluster(clustermap, ns_data) ==
  LET cluster_name == ClusterName(ns_data)
      c0 == [Get(clustermap, cluster_name, NewCluster) EXCEPT
               !.cluster = Some(cluster_name),
               !.foundation = Some(Get(ns_data, "foundation", "unknown")),
               !.environment = Some(Get(ns_data, "environment", "unknown"))]
      c1 == CountNamespace(c0, ns_data)
      c2 == AddClusterPods(c1, ns_data)
  IN Put(clustermap, cluster_name, c2)

\* Convert sets to lists
FinalizeCluster(cluster, applications) ==
  Put([cluster EXCEPT !.applications = applications],
      "application_count", Len(applications))

(***************************************************************************)
(* DataAggregator.generate_summary                                         *)
(***************************************************************************)
InList(x, list) == \E k \in 1..Len(list) : list[k] = x

\* sum(1 for app in app_data.values() if P(app))
CountApps(app_data, P(_)) == Cardinality({a \in DOMAIN app_data : P(app_data[a])})

RECURSIVE SumClusterPods(_)
SumClusterPods(cluster_data) ==
  IF DOMAIN cluster_data = {} THEN 0
  ELSE LET c == CHOOSE c \in DOMAIN cluster_data : TRUE
       IN cluster_data[c].total_pods + SumClusterPods(Without(cluster_data, c))

\* for foundation in ['dc01', 'dc02', 'dc03', 'dc04']
SummaryFoundations == <<"dc01", "dc02", "dc03", "dc04">>

\* readiness from which an application counts as ready for migration
ReadyThreshold == 70

SummaryTotals(app_data, cluster_data) ==
  LET IsActive(app) == app.is_active
      IsProd(app) == InList("production", app.environments)
      total_apps == Cardinality(DOMAIN app_data)
      active_apps == CountApps(app_data, IsActive)
      prod_apps == CountApps(app_data, IsProd)
  IN [applications |-> total_apps,
      active_applications |-> active_apps,
      inactive_applications |-> total_apps - active_apps,
      production_applications |-> prod_apps,
      nonproduction_applications |-> total_apps - prod_apps,
      clusters |-> Cardinality(DOMAIN cluster_data),
      total_pods |-> SumClusterPods(cluster_data)]

\* variant: an application is ready only above the threshold
SummaryMigration_above(app_data) ==
  LET IsActive(app) == app.is_active
      IsReady(app) == app.migration_readiness > ReadyThreshold
      IsIncomplete(app) == app.data_quality = "incomplete"
  IN [ready_for_migration |-> CountApps(app_data, IsReady),
      needs_planning |-> CountApps(app_data, IsActive),
      needs_metadata_analysis |-> CountApps(app_data, IsIncomplete)]

SummaryMigration(app_data) ==
  LET IsActive(app) == app.is_active
      IsReady(app) == app.migration_readiness >= ReadyThreshold
      IsIncomplete(app) == app.data_quality = "incomplete"
  IN [ready_for_migration |-> CountApps(app_data, IsReady),
      needs_planning |-> CountApps(app_data, IsActive),
      needs_metadata_analysis |-> CountApps(app_data, IsIncomplete)]

SummaryByFoundation(app_data) ==
  [f \in {SummaryFoundations[k] : k \in 1..Len(SummaryFoundations)} |->
     LET InFoundation(app) == InList(f, app.foundations)
         ActiveIn(app) == InList(f, app.foundations) /\ app.is_active
         InactiveIn(app) == InList(f, app.foundations) /\ ~app.is_active
     IN [applications |-> CountApps(app_data, InFoundation),
         active |-> CountApps(app_data, ActiveIn),
         inactive |-> CountApps(app_data, InactiveIn)]]

generate_summary(app_data, cluster_data) ==
  [timestamp |-> Today,
   totals |-> SummaryTotals(app_data, cluster_data),
   migration |-> SummaryMigration(app_data),
   by_foundation |-> SummaryByFoundation(app_data)]

(***************************************************************************)
(* Input domain: raw namespace records                                     *)
(***************************************************************************)
NsApp12345 == <<"a","p","p","-","1","2","3","4","5">>  \* 'app-12345'
NsAcme == <<"a","c","m","e","-","a","p","p","-","1","2","3","4","5">>  \* 'acme-app-12345'
NsSingle == <<"s","i","n","g","l","e">>  \* 'single'
NsOne == <<"a","p","p","-","0","0","1","-","n","s","1">>  \* 'app-001-ns1'
NsTwo == <<"a","p","p","-","0","0","1","-","n","s","2">>  \* 'app-001-ns2'
NsKube == <<"k","u","b","e","-","s","y","s","t","e","m">>  \* 'kube-system'
IdUpper == <<"A","P","P","-","0","0","1">>  \* 'APP-001'
IdLower == <<"a","p","p","-","0","0","1">>  \* 'app-001'
IdOther == <<"A","P","P","-","0","0","2">>  \* 'APP-002'
TsRecent == <<"2","0","2","6","-","1","0","-","3","0">>  \* '2026-10-30'
TsThirty == <<"2","0","2","6","-","1","0","-","0","6">>  \* '2026-10-06'
TsThirtyOne == <<"2","0","2","6","-","1","0","-","0","5">>  \* '2026-10-05'
TsOld == <<"2","0","2","6","-","0","8","-","2","2">>  \* '2026-08-22'
TsMalformed == <<"n","/","a">>  \* 'n/a'
TsEmpty == <<>>  \* ''

Base ==
  [namespace |-> NsOne, cluster |-> "cluster01", cluster_full |-> "cluster01.dc01",
   foundation |-> "dc01", environment |-> "lab", app_id |-> IdUpper, is_system |-> FALSE,
   pod_count |-> 5, running_pods |-> 5, deployment_count |-> 1, service_count |-> 1,
   labels |-> {"app"}, last_activity |-> TsRecent]

IdentityRecords ==
  {[Base EXCEPT !.app_id = IdLower],
   [Base EXCEPT !.app_id = IdOther, !.namespace = NsApp12345]}
  \cup {[Without(Base, "app_id") EXCEPT !.namespace = n] : n \in {NsOne, NsApp12345, NsAcme, NsSingle}}
  \cup {[Base EXCEPT !.app_id = Unknown, !.namespace = n] : n \in {NsTwo, NsSingle}}

SecondSiteRecords ==
  {[Base EXCEPT !.namespace = NsTwo, !.cluster = "cluster02", !.cluster_full = "cluster02.dc02",
                !.foundation = "dc02", !.pod_count = 3, !.running_pods = 3],
   Without(Base, "foundation")}

MetricsRecords ==
  {[Base EXCEPT !.environment = "production", !.pod_count = 12, !.running_pods = 12,
                !.service_count = 6],
   [Base EXCEPT !.environment = "production", !.pod_count = 7, !.running_pods = 6,
                !.deployment_count = 2, !.service_count = 3],
   [Base EXCEPT !.app_id = IdOther, !.pod_count = 2, !.running_pods = 2, !.last_activity = TsOld],
   Without(Without(Without(Without(Base, "pod_count"), "running_pods"), "deployment_count"),
           "service_count"),
   Without(Base, "environment")}

ActivityRecords ==
  {[Base EXCEPT !.last_activity = ts] :
     ts \in {TsThirty, TsThirtyOne, TsOld, TsMalformed, TsEmpty, Unknown}}
  \cup {Without(Base, "last_activity")}

LabelRecords == {Without(Base, "labels"), [Base EXCEPT !.labels = {}]}

SystemRecords ==
  {[Base EXCEPT !.is_system = TRUE],
   [namespace |-> NsKube, cluster |-> "cluster02", cluster_full |-> "cluster02.dc02",
    foundation |-> "dc02", environment |-> "lab", is_system |-> TRUE,
    pod_count |-> 4, running_pods |-> 3],
   [cluster |-> "cluster01", is_system |-> TRUE, pod_count |-> 1]}

ClusterKeyRecords ==
  {Without(Base, "cluster_full"), Without(Without(Base, "cluster_full"), "cluster")}

\* a record that is not a system namespace and lacks the namespace name
MalformedRecords == {Without(Base, "namespace")}

Records ==
  {Base} \cup IdentityRecords \cup SecondSiteRecords \cup MetricsRecords \cup ActivityRecords
  \cup LabelRecords \cup SystemRecords \cup ClusterKeyRecords \cup MalformedRecords

Streams == UNION {[1..n -> Records] : n \in 0..MaxRecords}

\* input domain of the identity resolver alone
NameAlphabet == {"a", "1", "-"}
Names(n) == UNION {[1..k -> NameAlphabet] : k \in 0..n}
ExplicitIds == {IdUpper, IdLower, NsApp12345, NsAcme, <<>>}
ResolverInputs ==
  {[namespace |-> n] : n \in Names(MaxNameLen)}
  \cup {[namespace |-> n, app_id |-> Unknown] : n \in Names(MaxNameLen - 3)}
  \cup {[namespace |-> n, app_id |-> a] : n \in {NsSingle, NsApp12345, NsAcme}, a \in ExplicitIds}

(***************************************************************************)
(* The aggregation run of main(): aggregate_by_application(data), then     *)
(* aggregate_by_cluster(data), one loop iteration per step                 *)
(***************************************************************************)
Init ==
  /\ data \in Streams
  /\ pc = "app_fold"
  /\ idx = 1
  /\ apps = <<>>
  /\ clusters = <<>>
  /\ arg = <<>>
  /\ ret = None
  /\ summary = None
  /\ reports_dir = <<>>
  /\ foundation_data = <<>>
  /\ apps_df = None
  /\ foundation_stats = <<>>
  /\ clusters_df = None
  /\ migration_df = None
  /\ summary_df = None
  /\ saved = None
  /\ runs = <<>>
  /\ app_map = <<>>

\* a system namespace is skipped
AppSkipSystem ==
  /\ pc = "app_fold"
  /\ idx <= Len(data)
  /\ IsSystem(data[idx])
  /\ idx' = idx + 1
  /\ UNCHANGED <<data, pc, apps, clusters, arg, ret, summary, conVars, runs, app_map>>

\* a record is folded into the record of its application
AppFold ==
  /\ pc = "app_fold"
  /\ idx <= Len(data)
  /\ ~IsSystem(data[idx])
  /\ ~RaisesKeyError(data[idx])
  /\ apps' = FoldApplication(apps, data[idx])
  /\ idx' = idx + 1
  /\ UNCHANGED <<data, pc, clusters, arg, ret, summary, conVars, runs, app_map>>

\* ns_data['namespace'] raises KeyError, which main() catches: the run exits with status 1
AppRaise ==
  /\ pc = "app_fold"
  /\ idx <= Len(data)
  /\ ~IsSystem(data[idx])
  /\ RaisesKeyError(data[idx])
  /\ pc' = "error"
  /\ apps' = RaisedIn(apps, data[idx])
  /\ UNCHANGED <<data, idx, clusters, arg, ret, summary, conVars, runs, app_map>>

\* the loop over apps.items() and the return
AppFinalize ==
  /\ pc = "app_fold"
  /\ idx > Len(data)
  /\ \E lists \in [DOMAIN apps -> UNION {ListChoices(apps[a]) : a \in DOMAIN apps}] :
       /\ \A a \in DOMAIN apps : lists[a] \in ListChoices(apps[a])
       /\ apps' = [a \in DOMAIN apps |-> FinalizeApp(apps[a], lists[a])]
  /\ pc' = "cluster_fold"
  /\ idx' = 1
  /\ UNCHANGED <<data, clusters, arg, ret, summary, conVars, runs, app_map>>

ClusterFold ==
  /\ pc = "cluster_fold"
  /\ idx <= Len(data)
  /\ clusters' = FoldCluster(clusters, data[idx])
  /\ idx' = idx + 1
  /\ UNCHANGED <<data, pc, apps, arg, ret, summary, conVars, runs, app_map>>

ClusterFinalize ==
  /\ pc = "cluster_fold"
  /\ idx > Len(data)
  /\ \E lists \in [DOMAIN clusters -> UNION {Orderings(clusters[c].applications) : c \in DOMAIN clusters}] :
       /\ \A c \in DOMAIN clusters : lists[c] \in Orderings(clusters[c].applications)
       /\ clusters' = [c \in DOMAIN clusters |-> FinalizeCluster(clusters[c], lists[c])]
  /\ pc' = "done"
  /\ UNCHANGED <<data, idx, apps, arg, ret, summary, conVars, runs, app_map>>

\* summary = aggregator.generate_summary(app_data, cluster_data)
GenerateSummary ==
  /\ pc = "done"
  /\ summary' = Some(generate_summary(apps, clusters))
  /\ pc' = "summarized"
  /\ UNCHANGED <<data, idx, apps, clusters, arg, ret, conVars, runs, app_map>>

Next ==
  \/ AppSkipSystem
  \/ AppFold
  \/ AppRaise
  \/ AppFinalize
  \/ ClusterFold
  \/ ClusterFinalize
  \/ GenerateSummary

Spec == Init /\ [][Next]_vars

(***************************************************************************)
(* The identity resolver alone, applied to one record                      *)
(***************************************************************************)
ResolveInit ==
  /\ arg \in ResolverInputs
  /\ ret = None
  /\ pc = "call"
  /\ data = <<>>
  /\ idx = 1
  /\ apps = <<>>
  /\ clusters = <<>>
  /\ summary = None
  /\ reports_dir = <<>>
  /\ foundation_data = <<>>
  /\ apps_df = None
  /\ foundation_stats = <<>>
  /\ clusters_df = None
  /\ migration_df = None
  /\ summary_df = None
  /\ saved = None
  /\ runs = <<>>
  /\ app_map = <<>>

Resolve ==
  /\ pc = "call"
  /\ ret' = Some(resolve_app_id(arg))
  /\ pc' = "return"
  /\ UNCHANGED <<data, idx, apps, clusters, arg, summary, conVars, runs, app_map>>

ResolveNext == Resolve

SpecResolve == ResolveInit /\ [][ResolveNext]_vars

(***************************************************************************)
(* Cross-foundation consolidation (scripts/aggregate-cross-foundation.py,  *)
(* class CrossFoundationAggregator).                                       *)
(*                                                                         *)
(* A CSV file is its header and its rows of cells; a cell is the text of   *)
(* the cell as a sequence of characters, the empty cell (pandas NaN) being *)
(* <<>>.  A DataFrame is [columns, rows], the cells of a row in the order  *)
(* of the columns, so that two columns may carry the same label.           *)
(***************************************************************************)
NaN == <<>>

UpperCase == {AsciiOrder[k] : k \in 14..39}

\* str.lower() of one character
LowerChar(c) == IF c \in UpperCase THEN AsciiOrder[Ord(c) + 26] ELSE c

\* str.lower()
Lower(s) == [k \in 1..Len(s) |-> LowerChar(s[k])]

\* str.strip()
RECURSIVE Strip(_)
Strip(s) ==
  IF s = <<>> THEN s
  ELSE IF Head(s) = " " THEN Strip(Tail(s))
  ELSE IF s[Len(s)] = " " THEN Strip(SubSeq(s, 1, Len(s) - 1))
  ELSE s

\* str.replace(' ', '_')
ReplaceSpaces(s) == [k \in 1..Len(s) |-> IF s[k] = " " THEN "_" ELSE s[k]]

\* col.strip().replace(' ', '_').lower()
NormalizeColumn(col) == Lower(ReplaceSpaces(Strip(col)))

\* sub in s
Contains(s, sub) ==
  \E k \in 0..(Len(s) - Len(sub)) : SubSeq(s, k + 1, k + Len(sub)) = sub

\* the value read_csv infers for a cell of digits
CellNum(c) == Num(c, 1, Len(c))

\* the labels of the columns the consolidation looks for
ColFoundationHeader == <<"F", "o", "u", "n", "d", "a", "t", "i", "o", "n">>
ColFoundation == <<"f", "o", "u", "n", "d", "a", "t", "i", "o", "n">>
ColAppId == <<"a", "p", "p", "_", "i", "d">>
ColCluster == <<"c", "l", "u", "s", "t", "e", "r">>
ColMigrationReadiness == <<"m", "i", "g", "r", "a", "t", "i", "o", "n", "_", "r", "e", "a", "d", "i", "n", "e", "s", "s">>
ColIsActive == <<"i", "s", "_", "a", "c", "t", "i", "v", "e">>
ColEnvironment == <<"e", "n", "v", "i", "r", "o", "n", "m", "e", "n", "t">>
ColTotalPods == <<"t", "o", "t", "a", "l", "_", "p", "o", "d", "s">>
CellTrue == <<"T", "r", "u", "e">>
Prod == <<"p", "r", "o", "d">>
Total == <<"T", "O", "T", "A", "L">>

\* label in df.columns
HasColumn(df, label) == \E k \in 1..Len(df.columns) : df.columns[k] = label

\* the positions of the columns that carry the label
ColumnsNamed(df, label) == {k \in 1..Len(df.columns) : df.columns[k] = label}

\* the labels of df.columns are pairwise different
UniqueColumns(df) ==
  \A j, k \in 1..Len(df.columns) : df.columns[j] = df.columns[k] => j = k

\* row[label] where the label names one column
Cell(df, row, label) == row[CHOOSE k \in 1..Len(df.columns) : df.columns[k] = label]

\* pd.DataFrame()
EmptyFrame == [columns |-> <<>>, rows |-> <<>>]

\* df['Foundation'] = foundation when the header has no 'Foundation'
InjectFoundation(df, foundation) ==
  IF HasColumn(df, ColFoundationHeader) THEN df
  ELSE [columns |-> Append(df.columns, ColFoundationHeader),
        rows |-> [r \in 1..Len(df.rows) |-> Append(df.rows[r], foundation)]]

\* df.columns = [col.strip().replace(' ', '_').lower() for col in df.columns]
NormalizeColumns(df) ==
  [df EXCEPT !.columns = [k \in 1..Len(df.columns) |-> NormalizeColumn(df.columns[k])]]

\* pd.read_csv raises EmptyDataError on a file without a header line
Readable(file) == file.columns # <<>>

\* the body of the try block of the three loaders: None when pd.read_csv raises
LoadFrame(foundation, file) ==
  IF Readable(file)
  THEN Some(NormalizeColumns(InjectFoundation([columns |-> file.columns, rows |-> file.rows],
                                              foundation)))
  ELSE None

\* the frames appended while looping over foundation_data.items(): an entry without a file
\* of the kind and an entry whose file does not load are passed over
RECURSIVE LoadFrames(_, _)
LoadFrames(entries, kind) ==
  IF entries = <<>> THEN <<>>
  ELSE LET entry == Head(entries)
           file == entry.files[kind]
           rest == LoadFrames(Tail(entries), kind)
       IN IF IsNone(file) \/ IsNone(LoadFrame(entry.foundation, Val(file)))
          THEN rest
          ELSE <<Val(LoadFrame(entry.foundation, Val(file)))>> \o rest

\* the labels of the frames in the order of their first appearance
RECURSIVE UnionColumns(_, _)
UnionColumns(frames, seen) ==
  IF frames = <<>> THEN seen
  ELSE LET fresh == SelectSeq(Head(frames).columns,
                              LAMBDA c : \A k \in 1..Len(seen) : seen[k] # c)
       IN UnionColumns(Tail(frames), seen \o fresh)

\* the rows of a frame laid out on the columns of the concatenation, NaN where the frame
\* has no such column
Reindex(df, columns) ==
  [r \in 1..Len(df.rows) |->
     [k \in 1..Len(columns) |->
        IF HasColumn(df, columns[k]) THEN Cell(df, df.rows[r], columns[k]) ELSE NaN]]

RECURSIVE ConcatRows(_, _)
ConcatRows(frames, columns) ==
  IF frames = <<>> THEN <<>>
  ELSE Reindex(Head(frames), columns) \o ConcatRows(Tail(frames), columns)

RECURSIVE JoinRows(_)
JoinRows(frames) ==
  IF frames = <<>> THEN <<>> ELSE Head(frames).rows \o JoinRows(Tail(frames))

\* pd.concat raises InvalidIndexError when the frames differ in their columns and one of
\* them repeats a label
ConcatRaises(frames) ==
  /\ \E k \in 1..Len(frames) : ~UniqueColumns(frames[k])
  /\ \E k \in 1..Len(frames) : frames[k].columns # frames[1].columns

\* variant: a row whose first cell repeats the first cell of an earlier row is dropped
Concat_one_row_per_key(frames) ==
  LET all == IF \A k \in 1..Len(frames) : frames[k].columns = frames[1].columns
             THEN [columns |-> frames[1].columns, rows |-> JoinRows(frames)]
             ELSE LET columns == UnionColumns(frames, <<>>)
                  IN [columns |-> columns, rows |-> ConcatRows(frames, columns)]
      RECURSIVE keep(_)
      keep(n) == IF n = 0 THEN <<>>
                 ELSE IF \E j \in 1..(n - 1) : all.rows[j][1] = all.rows[n][1]
                 THEN keep(n - 1)
                 ELSE Append(keep(n - 1), all.rows[n])
  IN [all EXCEPT !.rows = keep(Len(all.rows))]

\* pd.concat(frames, ignore_index=True) of a non-empty list that does not raise
Concat(frames) ==
  IF \A k \in 1..Len(frames) : frames[k].columns = frames[1].columns
  THEN [columns |-> frames[1].columns, rows |-> JoinRows(frames)]
  ELSE LET columns == UnionColumns(frames, <<>>)
       IN [columns |-> columns, rows |-> ConcatRows(frames, columns)]

\* a < b on the text of two cells, NaN after every value
TextBefore(a, b) == a # NaN /\ (b = NaN \/ StrGreater(b, a))

\* a > b on the numbers of two cells, NaN after every value
NumberDescBefore(a, b) == a # NaN /\ (b = NaN \/ CellNum(a) > CellNum(b))

\* the rows of a frame as a set
RowSet(df) == {df.rows[r] : r \in 1..Len(df.rows)}

\* a stable sort: a row goes behind every row it does not have to precede; before is the
\* set of the pairs <<a, b>> where a has to precede b
RECURSIVE SortRows(_, _)
SortRows(rows, before) ==
  IF rows = <<>> THEN <<>>
  ELSE LET sorted == SortRows(SubSeq(rows, 1, Len(rows) - 1), before)
           row == rows[Len(rows)]
           behind == {k \in 0..Len(sorted) : \A j \in (k + 1)..Len(sorted) : <<row, sorted[j]>> \in before}
           at == CHOOSE k \in behind : \A j \in behind : k <= j
       IN SubSeq(sorted, 1, at) \o <<row>> \o SubSeq(sorted, at + 1, Len(sorted))

\* df.sort_values([first, second]) on two columns of text
SortByText(df, first, second) ==
  LET before == {p \in RowSet(df) \X RowSet(df) :
                   \/ TextBefore(Cell(df, p[1], first), Cell(df, p[2], first))
                   \/ /\ Cell(df, p[1], first) = Cell(df, p[2], first)
                      /\ TextBefore(Cell(df, p[1], second), Cell(df, p[2], second))}
  IN [df EXCEPT !.rows = SortRows(df.rows, before)]

\* df.sort_values([number, text], ascending=[False, True])
SortByNumberDesc(df, number, text) ==
  LET before == {p \in RowSet(df) \X RowSet(df) :
                   \/ NumberDescBefore(Cell(df, p[1], number), Cell(df, p[2], number))
                   \/ /\ Cell(df, p[1], number) = Cell(df, p[2], number)
                      /\ TextBefore(Cell(df, p[1], text), Cell(df, p[2], text))}
  IN [df EXCEPT !.rows = SortRows(df.rows, before)]

\* sort_values raises ValueError when a label it sorts by names two columns
SortRaises(df, labels) == \E l \in labels : Cardinality(ColumnsNamed(df, l)) > 1

\* the entries of foundation_stats, in the order of foundation_data: one for every
\* foundation whose application report loads
RECURSIVE FoundationStats(_)
FoundationStats(entries) ==
  IF entries = <<>> THEN <<>>
  ELSE LET entry == Head(entries)
           file == entry.files["applications"]
           rest == FoundationStats(Tail(entries))
       IN IF IsNone(file) \/ IsNone(LoadFrame(entry.foundation, Val(file)))
          THEN rest
          ELSE LET df == Val(LoadFrame(entry.foundation, Val(file)))
                   active == {r \in 1..Len(df.rows) : Cell(df, df.rows[r], ColIsActive) = CellTrue}
               IN <<[foundation |-> entry.foundation,
                     total_applications |-> Len(df.rows),
                     active_applications |-> IF HasColumn(df, ColIsActive)
                                             THEN Cardinality(active) ELSE Len(df.rows),
                     file_path |-> Val(file).path]>> \o rest

\* the outcome of a loader that raises
Raised == [raised |-> TRUE, df |-> EmptyFrame]
Returned(df) == [raised |-> FALSE, df |-> df]

\* CrossFoundationAggregator.load_and_combine_applications, the combined frame
load_and_combine_applications(entries) ==
  LET combined_apps == LoadFrames(entries, "applications")
  IN IF combined_apps = <<>> \/ ConcatRaises(combined_apps) THEN Raised
     ELSE LET combined_df == Concat(combined_apps)
          IN IF HasColumn(combined_df, ColFoundation) /\ HasColumn(combined_df, ColAppId)
             THEN IF SortRaises(combined_df, {ColFoundation, ColAppId}) THEN Raised
                  ELSE Returned(SortByText(combined_df, ColFoundation, ColAppId))
             ELSE Returned(combined_df)

\* CrossFoundationAggregator.load_and_combine_clusters
load_and_combine_clusters(entries) ==
  LET combined_clusters == LoadFrames(entries, "clusters")
  IN IF combined_clusters = <<>> THEN Returned(EmptyFrame)
     ELSE IF ConcatRaises(combined_clusters) THEN Raised
     ELSE LET combined_df == Concat(combined_clusters)
          IN IF HasColumn(combined_df, ColFoundation) /\ HasColumn(combined_df, ColCluster)
             THEN IF SortRaises(combined_df, {ColFoundation, ColCluster}) THEN Raised
                  ELSE Returned(SortByText(combined_df, ColFoundation, ColCluster))
             ELSE Returned(combined_df)

\* CrossFoundationAggregator.load_and_combine_migration_priority
load_and_combine_migration_priority(entries) ==
  LET combined_migration == LoadFrames(entries, "migration_priority")
  IN IF combined_migration = <<>> THEN Returned(EmptyFrame)
     ELSE IF ConcatRaises(combined_migration) THEN Raised
     ELSE LET combined_df == Concat(combined_migration)
          IN IF HasColumn(combined_df, ColMigrationReadiness)
             THEN IF SortRaises(combined_df, {ColMigrationReadiness, ColFoundation}) THEN Raised
                  ELSE Returned(SortByNumberDesc(combined_df, ColMigrationReadiness, ColFoundation))
             ELSE Returned(combined_df)

\* df[df['foundation'] == foundation], the empty frame when df has no such column
OfFoundation(df, foundation) ==
  IF HasColumn(df, ColFoundation)
  THEN [df EXCEPT !.rows = SelectSeq(df.rows, LAMBDA row : Cell(df, row, ColFoundation) = foundation)]
  ELSE EmptyFrame

\* the number of the rows whose cell of the column satisfies the test, 0 without the column
CountRows(df, label, Test(_)) ==
  IF HasColumn(df, label)
  THEN Cardinality({r \in 1..Len(df.rows) : Test(Cell(df, df.rows[r], label))})
  ELSE 0

\* df[label].sum(), which passes over NaN; 0 without the column
RECURSIVE SumCells(_, _, _)
SumCells(df, label, n) ==
  IF n = 0 \/ ~HasColumn(df, label) THEN 0
  ELSE LET c == Cell(df, df.rows[n], label)
       IN (IF c = NaN THEN 0 ELSE CellNum(c)) + SumCells(df, label, n - 1)

\* the summary row of one foundation
SummaryRow(stats, adf, cdf) ==
  LET foundation_apps == OfFoundation(adf, stats.foundation)
      foundation_clusters == OfFoundation(cdf, stats.foundation)
      IsTrue(c) == c = CellTrue
      IsProd(c) == Contains(Lower(c), Prod)
      IsReady(c) == c # NaN /\ CellNum(c) >= ReadyThreshold
      total_apps == Len(foundation_apps.rows)
      active_apps == CountRows(foundation_apps, ColIsActive, IsTrue)
  IN [Foundation |-> stats.foundation,
      Total_Applications |-> total_apps,
      Active_Applications |-> active_apps,
      Inactive_Applications |-> total_apps - active_apps,
      Production_Applications |-> CountRows(foundation_apps, ColEnvironment, IsProd),
      Migration_Ready_Apps |-> CountRows(foundation_apps, ColMigrationReadiness, IsReady),
      Total_Clusters |-> Len(foundation_clusters.rows),
      Total_Pods |-> SumCells(foundation_apps, ColTotalPods, Len(foundation_apps.rows)),
      Report_File |-> stats.file_path]

\* sum(row[field] for row in summary_data)
RECURSIVE SumRows(_, _)
SumRows(summary_data, field) ==
  IF summary_data = <<>> THEN 0
  ELSE Head(summary_data)[field] + SumRows(Tail(summary_data), field)

\* the row of the cross-foundation totals
TotalsRow(summary_data) ==
  [Foundation |-> Total,
   Total_Applications |-> SumRows(summary_data, "Total_Applications"),
   Active_Applications |-> SumRows(summary_data, "Active_Applications"),
   Inactive_Applications |-> SumRows(summary_data, "Inactive_Applications"),
   Production_Applications |-> SumRows(summary_data, "Production_Applications"),
   Migration_Ready_Apps |-> SumRows(summary_data, "Migration_Ready_Apps"),
   Total_Clusters |-> SumRows(summary_data, "Total_Clusters"),
   Total_Pods |-> SumRows(summary_data, "Total_Pods"),
   Report_File |-> "Combined"]

\* CrossFoundationAggregator.generate_cross_foundation_summary: the rows of the summary
generate_cross_foundation_summary(stats, adf, cdf) ==
  LET summary_data == [k \in 1..Len(stats) |-> SummaryRow(stats[k], adf, cdf)]
  IN IF summary_data # <<>> THEN Append(summary_data, TotalsRow(summary_data))
     ELSE summary_data

(***************************************************************************)
(* Input domain: the foundation directories under the reports directory    *)
(* and the report files in them.  Of the headers the report generators     *)
(* write, the files carry the columns the consolidation reads and the      *)
(* identifier column.                                                      *)
(***************************************************************************)
Dc01 == <<"d", "c", "0", "1">>
Dc02 == <<"d", "c", "0", "2">>
Dc03 == <<"d", "c", "0", "3">>
Consolidated == <<"c", "o", "n", "s", "o", "l", "i", "d", "a", "t", "e", "d">>
DataDir == <<"d", "a", "t", "a">>

\* str.upper(), as the executive summary of generate-reports.py spells a foundation
Upper(s) == [k \in 1..Len(s) |-> IF s[k] \in {AsciiOrder[j] : j \in 40..65}
                                 THEN AsciiOrder[Ord(s[k]) - 26] ELSE s[k]]

\* an application report under the header of generate_reports.py, rows in the order given
AppsGenerated ==
  [path |-> "application_report_20261105.csv",
   columns |-> <<<<"A", "p", "p", "l", "i", "c", "a", "t", "i", "o", "n", " ", "I", "D">>, <<"S", "t", "a", "t", "u", "s">>, <<"E", "n", "v", "i", "r", "o", "n", "m", "e", "n", "t">>, <<"T", "o", "t", "a", "l", " ", "P", "o", "d", "s">>,
                 <<"M", "i", "g", "r", "a", "t", "i", "o", "n", " ", "R", "e", "a", "d", "i", "n", "e", "s", "s", " ", "S", "c", "o", "r", "e">>>>,
   rows |-> <<<<<<"A", "P", "P", "-", "0", "0", "2">>, <<"A", "c", "t", "i", "v", "e">>, <<"P", "r", "o", "d", "u", "c", "t", "i", "o", "n">>, <<"1", "2">>, <<"5", "0">>>>,
              <<<<"A", "P", "P", "-", "0", "0", "1">>, <<"I", "n", "a", "c", "t", "i", "v", "e">>, <<"L", "a", "b">>, <<"3">>, <<"9", "0">>>>>>]

\* an application report under the column names the consolidation sorts and counts by
AppsSnake ==
  [path |-> "application_report_snake.csv",
   columns |-> <<ColAppId, ColIsActive, ColEnvironment, ColTotalPods, ColMigrationReadiness>>,
   rows |-> <<<<<<"A", "P", "P", "-", "0", "0", "2">>, <<"T", "r", "u", "e">>, <<"p", "r", "o", "d", "u", "c", "t", "i", "o", "n">>, <<"1", "2">>, <<"5", "0">>>>,
              <<<<"A", "P", "P", "-", "0", "0", "1">>, <<"F", "a", "l", "s", "e">>, <<"l", "a", "b">>, <<"3">>, <<"9", "0">>>>>>]

\* an application report with its own Foundation column, the foundation in capitals
AppsOwnFoundation(foundation) ==
  [path |-> "application_report_own.csv",
   columns |-> <<ColAppId, ColFoundationHeader, ColIsActive, ColTotalPods>>,
   rows |-> <<<<<<"A", "P", "P", "-", "0", "0", "3">>, Upper(foundation), <<"T", "r", "u", "e">>, <<"4">>>>>>]

\* an application report whose foundation column is headed in lower case
AppsLowerFoundation(foundation) ==
  [path |-> "application_report_lower.csv",
   columns |-> <<ColAppId, ColFoundation, ColTotalPods>>,
   rows |-> <<<<<<"A", "P", "P", "-", "0", "0", "4">>, foundation, <<"5">>>>>>]

\* a file without a header line, which pd.read_csv does not load
EmptyFile(path) == [path |-> path, columns |-> <<>>, rows |-> <<>>]

\* a cluster report under the header of the report generators
ClustersGenerated(foundation) ==
  [path |-> "cluster_report_20261105.csv",
   columns |-> <<<<"C", "l", "u", "s", "t", "e", "r">>, ColFoundationHeader, <<"T", "o", "t", "a", "l", " ", "P", "o", "d", "s">>>>,
   rows |-> <<<<<<"c", "l", "u", "s", "t", "e", "r", "0", "2">>, foundation, <<"1", "2">>>>,
              <<<<"c", "l", "u", "s", "t", "e", "r", "0", "1">>, foundation, <<"3">>>>>>]

\* a cluster report without a foundation column
ClustersBare ==
  [path |-> "cluster_report_bare.csv",
   columns |-> <<<<"C", "l", "u", "s", "t", "e", "r">>, <<"N", "o", "d", "e", "s">>>>,
   rows |-> <<<<<<"c", "l", "u", "s", "t", "e", "r", "0", "3">>, <<"4">>>>>>]

\* a cluster report whose foundation column is headed in lower case
ClustersLowerFoundation(foundation) ==
  [path |-> "cluster_report_lower.csv",
   columns |-> <<<<"C", "l", "u", "s", "t", "e", "r">>, ColFoundation>>,
   rows |-> <<<<<<"c", "l", "u", "s", "t", "e", "r", "0", "4">>, foundation>>>>]

\* a migration priority report under the header of generate-reports.py, best score first
MigrationGenerated ==
  [path |-> "migration_priority_20261105.csv",
   columns |-> <<<<"P", "r", "i", "o", "r", "i", "t", "y">>, <<"A", "p", "p", "l", "i", "c", "a", "t", "i", "o", "n", " ", "I", "D">>, <<"M", "i", "g", "r", "a", "t", "i", "o", "n", " ", "S", "c", "o", "r", "e">>>>,
   rows |-> <<<<<<"1">>, <<"A", "P", "P", "-", "0", "0", "1">>, <<"9", "0">>>>,
              <<<<"2">>, <<"A", "P", "P", "-", "0", "0", "2">>, <<"5", "0">>>>>>]

\* a migration priority report under the header of generate_reports.py
MigrationGeneratedLong ==
  [path |-> "migration_priority_long.csv",
   columns |-> <<<<"P", "r", "i", "o", "r", "i", "t", "y">>, <<"A", "p", "p", "l", "i", "c", "a", "t", "i", "o", "n", " ", "I", "D">>, <<"M", "i", "g", "r", "a", "t", "i", "o", "n", " ", "R", "e", "a", "d", "i", "n", "e", "s", "s", " ", "S", "c", "o", "r", "e">>>>,
   rows |-> <<<<<<"1">>, <<"A", "P", "P", "-", "0", "0", "5">>, <<"8", "0">>>>>>]

\* a migration priority report under the column name the consolidation sorts by
MigrationSnake ==
  [path |-> "migration_priority_snake.csv",
   columns |-> <<ColAppId, ColMigrationReadiness>>,
   rows |-> <<<<<<"A", "P", "P", "-", "0", "0", "2">>, <<"5", "0">>>>,
              <<<<"A", "P", "P", "-", "0", "0", "1">>, <<"9", "0">>>>>>]

\* a migration priority report whose foundation column is headed with spaces around it
MigrationSpacedFoundation(foundation) ==
  [path |-> "migration_priority_spaced.csv",
   columns |-> <<<<"A", "p", "p", "l", "i", "c", "a", "t", "i", "o", "n", " ", "I", "D">>, <<" ", "F", "o", "u", "n", "d", "a", "t", "i", "o", "n", " ">>, <<"M", "i", "g", "r", "a", "t", "i", "o", "n", " ", "S", "c", "o", "r", "e">>>>,
   rows |-> <<<<<<"A", "P", "P", "-", "0", "0", "6">>, foundation, <<"7", "0">>>>>>]

\* csv_files of a directory: None for a kind without a file
CsvFiles(a, c, e, m) ==
  [applications |-> a, clusters |-> c, executive_summary |-> e, migration_priority |-> m]

ExecutiveSummary == Some(EmptyFile("executive_summary_20261105.csv"))

\* the contents a foundation directory may have
DirectoryFiles(foundation) ==
  {CsvFiles(None, None, None, None),
   CsvFiles(None, None, ExecutiveSummary, None),
   CsvFiles(Some(AppsGenerated), Some(ClustersGenerated(foundation)), ExecutiveSummary,
            Some(MigrationGenerated)),
   CsvFiles(Some(AppsSnake), Some(ClustersGenerated(foundation)), None, Some(MigrationSnake)),
   CsvFiles(Some(AppsOwnFoundation(foundation)), Some(ClustersBare), None,
            Some(MigrationGeneratedLong)),
   CsvFiles(Some(AppsLowerFoundation(foundation)), Some(ClustersGenerated(foundation)), None,
            Some(MigrationSnake)),
   CsvFiles(Some(AppsSnake), Some(ClustersLowerFoundation(foundation)), None, Some(MigrationSnake)),
   CsvFiles(Some(AppsSnake), Some(ClustersGenerated(foundation)), None,
            Some(MigrationSpacedFoundation(foundation))),
   CsvFiles(Some(EmptyFile("application_report_empty.csv")), Some(ClustersGenerated(foundation)),
            None, Some(MigrationGenerated)),
   CsvFiles(Some(AppsSnake), Some(EmptyFile("cluster_report_empty.csv")), None, None)}

FoundationNames == {Dc01, Dc02, Dc03}

\* the directories the glob may list: a foundation with any of its contents, or the output
\* directory of an earlier consolidation
Directories ==
  UNION {{[name |-> f, files |-> c] : c \in DirectoryFiles(f)} : f \in FoundationNames}
  \cup {[name |-> Consolidated, files |-> CsvFiles(None, None, ExecutiveSummary, None)]}

\* the listings of the reports directory, in the order the glob yields them
Listings ==
  {l \in UNION {[1..n -> Directories] : n \in 0..MaxFoundations} :
     \A j, k \in 1..Len(l) : l[j].name = l[k].name => j = k}

(***************************************************************************)
(* The consolidation run of run_consolidation(), one step per call         *)
(***************************************************************************)
\* CrossFoundationAggregator.discover_foundation_reports: foundation_data, in the order of
\* the listing
RECURSIVE discover_foundation_reports(_)
discover_foundation_reports(listing) ==
  IF listing = <<>> THEN <<>>
  ELSE LET dir == Head(listing)
           kinds == {"applications", "clusters", "executive_summary", "migration_priority"}
           available_reports == Cardinality({k \in kinds : ~IsNone(dir.files[k])})
           rest == discover_foundation_reports(Tail(listing))
       IN IF dir.name \in {Consolidated, DataDir} \/ available_reports = 0
          THEN rest
          ELSE <<[foundation |-> dir.name, files |-> dir.files]>> \o rest

\* df.empty
IsEmptyFrame(df) == df.columns = <<>> \/ df.rows = <<>>

\* CrossFoundationAggregator.save_consolidated_reports: the kinds of report written
save_consolidated_reports(adf, cdf, mdf, sdf) ==
  {kind \in {"applications", "clusters", "migration_priority", "executive_summary"} :
     \/ kind = "applications" /\ ~IsEmptyFrame(adf)
     \/ kind = "clusters" /\ ~IsEmptyFrame(cdf)
     \/ kind = "migration_priority" /\ ~IsEmptyFrame(mdf)
     \/ kind = "executive_summary" /\ sdf # <<>>}

RECURSIVE SumStats(_, _)
SumStats(stats, field) ==
  IF stats = <<>> THEN 0 ELSE Head(stats)[field] + SumStats(Tail(stats), field)

\* CrossFoundationAggregator.generate_metadata
generate_metadata(stats, saved_files) ==
  [foundations_processed |-> [k \in 1..Len(stats) |-> stats[k].foundation],
   consolidated_files |-> saved_files,
   total_foundations |-> Len(stats),
   total_applications |-> SumStats(stats, "total_applications"),
   total_active_applications |-> SumStats(stats, "active_applications")]

ConInit ==
  /\ reports_dir \in Listings
  /\ pc = "con_discover"
  /\ foundation_data = <<>>
  /\ apps_df = None
  /\ foundation_stats = <<>>
  /\ clusters_df = None
  /\ migration_df = None
  /\ summary_df = None
  /\ saved = None
  /\ runs = <<>>
  /\ app_map = <<>>
  /\ data = <<>>
  /\ idx = 1
  /\ apps = <<>>
  /\ clusters = <<>>
  /\ summary = None
  /\ arg = <<>>
  /\ ret = None

conRest == <<data, idx, apps, clusters, summary, arg, ret, reports_dir, runs, app_map>>

\* foundation_data = self.discover_foundation_reports()
ConDiscover ==
  /\ pc = "con_discover"
  /\ foundation_data' = discover_foundation_reports(reports_dir)
  /\ pc' = "con_applications"
  /\ UNCHANGED <<conRest, apps_df, foundation_stats, clusters_df, migration_df, summary_df, saved>>

\* if not foundation_data: raise ValueError
ConNoReports ==
  /\ pc = "con_applications"
  /\ foundation_data = <<>>
  /\ pc' = "con_failed"
  /\ UNCHANGED <<conRest, foundation_data, apps_df, foundation_stats, clusters_df, migration_df,
                 summary_df, saved>>

\* apps_df, foundation_stats = self.load_and_combine_applications(foundation_data)
ConApplications ==
  /\ pc = "con_applications"
  /\ foundation_data # <<>>
  /\ ~load_and_combine_applications(foundation_data).raised
  /\ apps_df' = Some(load_and_combine_applications(foundation_data).df)
  /\ foundation_stats' = FoundationStats(foundation_data)
  /\ pc' = "con_clusters"
  /\ UNCHANGED <<conRest, foundation_data, clusters_df, migration_df, summary_df, saved>>

\* load_and_combine_applications raises: no frame was loaded, or pd.concat or sort_values
\* raises; run_consolidation logs and raises again
ConApplicationsFail ==
  /\ pc = "con_applications"
  /\ foundation_data # <<>>
  /\ load_and_combine_applications(foundation_data).raised
  /\ pc' = "con_failed"
  /\ UNCHANGED <<conRest, foundation_data, apps_df, foundation_stats, clusters_df, migration_df,
                 summary_df, saved>>

\* clusters_df = self.load_and_combine_clusters(foundation_data)
ConClusters ==
  /\ pc = "con_clusters"
  /\ ~load_and_combine_clusters(foundation_data).raised
  /\ clusters_df' = Some(load_and_combine_clusters(foundation_data).df)
  /\ pc' = "con_migration"
  /\ UNCHANGED <<conRest, foundation_data, apps_df, foundation_stats, migration_df, summary_df, saved>>

\* pd.concat or sort_values raises in load_and_combine_clusters
ConClustersFail ==
  /\ pc = "con_clusters"
  /\ load_and_combine_clusters(foundation_data).raised
  /\ pc' = "con_failed"
  /\ UNCHANGED <<conRest, foundation_data, apps_df, foundation_stats, clusters_df, migration_df,
                 summary_df, saved>>

\* migration_df = self.load_and_combine_migration_priority(foundation_data)
ConMigration ==
  /\ pc = "con_migration"
  /\ ~load_and_combine_migration_priority(foundation_data).raised
  /\ migration_df' = Some(load_and_combine_migration_priority(foundation_data).df)
  /\ pc' = "con_summary"
  /\ UNCHANGED <<conRest, foundation_data, apps_df, foundation_stats, clusters_df, summary_df, saved>>

\* pd.concat or sort_values raises in load_and_combine_migration_priority
ConMigrationFail ==
  /\ pc = "con_migration"
  /\ load_and_combine_migration_priority(foundation_data).raised
  /\ pc' = "con_failed"
  /\ UNCHANGED <<conRest, foundation_data, apps_df, foundation_stats, clusters_df, migration_df,
                 summary_df, saved>>

\* summary_df = self.generate_cross_foundation_summary(foundation_stats, apps_df, clusters_df)
ConSummary ==
  /\ pc = "con_summary"
  /\ summary_df' = Some(generate_cross_foundation_summary(foundation_stats, Val(apps_df),
                                                          Val(clusters_df)))
  /\ pc' = "con_save"
  /\ UNCHANGED <<conRest, foundation_data, apps_df, foundation_stats, clusters_df, migration_df, saved>>

\* save_consolidated_reports, then generate_metadata
ConSave ==
  /\ pc = "con_save"
  /\ saved' = Some(generate_metadata(foundation_stats,
                     save_consolidated_reports(Val(apps_df), Val(clusters_df), Val(migration_df),
                                               Val(summary_df))))
  /\ pc' = "con_done"
  /\ UNCHANGED <<conRest, foundation_data, apps_df, foundation_stats, clusters_df, migration_df,
                 summary_df>>

ConNext ==
  \/ ConDiscover
  \/ ConNoReports
  \/ ConApplications
  \/ ConApplicationsFail
  \/ ConClusters
  \/ ConClustersFail
  \/ ConMigration
  \/ ConMigrationFail
  \/ ConSummary
  \/ ConSave

SpecConsolidate == ConInit /\ [][ConNext]_vars

(***************************************************************************)
(* Two aggregation runs whose fold steps interleave.  Each run is one call *)
(* of aggregate_by_application followed by one call of                     *)
(* aggregate_by_cluster; the accumulator maps `apps` and `clusters` are    *)
(* locals of the call.                                                     *)
(***************************************************************************)
\* the most records in the input of one of the two runs
MaxRunRecords == 2

RunIds == {1, 2}

RunRecords ==
  {Base,
   [Base EXCEPT !.namespace = NsTwo, !.cluster = "cluster02", !.cluster_full = "cluster02.dc02",
                !.foundation = "dc02", !.pod_count = 3, !.running_pods = 3],
   [Base EXCEPT !.is_system = TRUE],
   Without(Base, "namespace")}

RunStreams == UNION {[1..n -> RunRecords] : n \in 0..MaxRunRecords}

\* apps = defaultdict(...) of another call
OwnApps_shared(r) == runs[1].apps

\* apps = defaultdict(...): the map is created by the call and belongs to it
OwnApps(r) == runs[r].apps

\* clusters = defaultdict(...): the map is created by the call and belongs to it
OwnClusters(r) == runs[r].clusters

TwoInit ==
  /\ runs \in [RunIds -> {[data |-> s, pc |-> "app_fold", idx |-> 1, apps |-> <<>>,
                           clusters |-> <<>>] : s \in RunStreams}]
  /\ data = <<>>
  /\ pc = "two_runs"
  /\ idx = 1
  /\ apps = <<>>
  /\ clusters = <<>>
  /\ arg = <<>>
  /\ ret = None
  /\ summary = None
  /\ reports_dir = <<>>
  /\ foundation_data = <<>>
  /\ apps_df = None
  /\ foundation_stats = <<>>
  /\ clusters_df = None
  /\ migration_df = None
  /\ summary_df = None
  /\ saved = None
  /\ app_map = <<>>

twoRest == <<data, pc, idx, apps, clusters, summary, arg, ret, conVars, app_map>>

\* run r skips a system namespace
RunAppSkipSystem(r) ==
  /\ runs[r].pc = "app_fold"
  /\ runs[r].idx <= Len(runs[r].data)
  /\ IsSystem(runs[r].data[runs[r].idx])
  /\ runs' = [runs EXCEPT ![r].idx = @ + 1]
  /\ UNCHANGED twoRest

\* run r folds a record into the record of its application
RunAppFold(r) ==
  /\ runs[r].pc = "app_fold"
  /\ runs[r].idx <= Len(runs[r].data)
  /\ ~IsSystem(runs[r].data[runs[r].idx])
  /\ ~RaisesKeyError(runs[r].data[runs[r].idx])
  /\ runs' = [runs EXCEPT ![r].apps = FoldApplication(OwnApps(r), runs[r].data[runs[r].idx]),
                          ![r].idx = @ + 1]
  /\ UNCHANGED twoRest

\* ns_data['namespace'] raises KeyError in run r
RunAppRaise(r) ==
  /\ runs[r].pc = "app_fold"
  /\ runs[r].idx <= Len(runs[r].data)
  /\ ~IsSystem(runs[r].data[runs[r].idx])
  /\ RaisesKeyError(runs[r].data[runs[r].idx])
  /\ runs' = [runs EXCEPT ![r].apps = RaisedIn(OwnApps(r), runs[r].data[runs[r].idx]),
                          ![r].pc = "error"]
  /\ UNCHANGED twoRest

\* the loop over apps.items() and the return of run r
RunAppFinalize(r) ==
  /\ runs[r].pc = "app_fold"
  /\ runs[r].idx > Len(runs[r].data)
  /\ \E lists \in [DOMAIN OwnApps(r) -> UNION {ListChoices(OwnApps(r)[a]) : a \in DOMAIN OwnApps(r)}] :
       /\ \A a \in DOMAIN OwnApps(r) : lists[a] \in ListChoices(OwnApps(r)[a])
       /\ runs' = [runs EXCEPT ![r].apps = [a \in DOMAIN OwnApps(r) |->
                                              FinalizeApp(OwnApps(r)[a], lists[a])],
                               ![r].pc = "cluster_fold",
                               ![r].idx = 1]
  /\ UNCHANGED twoRest

RunClusterFold(r) ==
  /\ runs[r].pc = "cluster_fold"
  /\ runs[r].idx <= Len(runs[r].data)
  /\ runs' = [runs EXCEPT ![r].clusters = FoldCluster(OwnClusters(r), runs[r].data[runs[r].idx]),
                          ![r].idx = @ + 1]
  /\ UNCHANGED twoRest

RunClusterFinalize(r) ==
  /\ runs[r].pc = "cluster_fold"
  /\ runs[r].idx > Len(runs[r].data)
  /\ \E lists \in [DOMAIN OwnClusters(r) ->
                     UNION {Orderings(OwnClusters(r)[c].applications) : c \in DOMAIN OwnClusters(r)}] :
       /\ \A c \in DOMAIN OwnClusters(r) : lists[c] \in Orderings(OwnClusters(r)[c].applications)
       /\ runs' = [runs EXCEPT ![r].clusters = [c \in DOMAIN OwnClusters(r) |->
                                                  FinalizeCluster(OwnClusters(r)[c], lists[c])],
                               ![r].pc = "done"]
  /\ UNCHANGED twoRest

TwoNext ==
  \/ \E r \in RunIds : RunAppSkipSystem(r)
  \/ \E r \in RunIds : RunAppFold(r)
  \/ \E r \in RunIds : RunAppRaise(r)
  \/ \E r \in RunIds : RunAppFinalize(r)
  \/ \E r \in RunIds : RunClusterFold(r)
  \/ \E r \in RunIds : RunClusterFinalize(r)

SpecTwoRuns == TwoInit /\ [][TwoNext]_vars

(***************************************************************************)
(* scripts/aggregate_data.py: DataAggregator.classify_applications         *)
(***************************************************************************)
\* timestamp_str.replace('Z', '+00:00')
RECURSIVE ReplaceZ(_)
ReplaceZ(s) ==
  IF s = <<>> THEN <<>>
  ELSE (IF Head(s) = "Z" THEN <<"+", "0", "0", ":", "0", "0">> ELSE <<Head(s)>>) \o ReplaceZ(Tail(s))

\* the day count returned for an empty or unreadable timestamp
NoTimestampDays == 999

\* DataAggregator._calculate_days_since
calculate_days_since(timestamp_str) ==
  IF timestamp_str = <<>> THEN NoTimestampDays
  ELSE LET timestamp == fromisoformat(ReplaceZ(timestamp_str))
       IN IF IsNone(timestamp) THEN NoTimestampDays ELSE DaysSince(Val(timestamp))

\* app_id = entry.get("app_id", "unknown"), replaced by f"app-{namespace}" when it is "unknown"
ClassifyAppId(entry) ==
  LET app_id == Get(entry, "app_id", Unknown)
  IN IF app_id = Unknown THEN <<"a", "p", "p", "-">> \o Get(entry, "namespace", Unknown) ELSE app_id

\* status = "Active" if days_since < 30 else "Inactive"
ClassifyStatus(entry) ==
  IF calculate_days_since(Get(entry, "last_activity", <<>>)) < 30 THEN "Active" ELSE "Inactive"

\* the entry app_map[app_id] is created with, from the record that introduces the application
NewClassified(entry) ==
  [app_id |-> ClassifyAppId(entry),
   status |-> ClassifyStatus(entry),
   environment |-> Get(entry, "environment", "unknown"),
   foundations |-> {}, clusters |-> {}, namespaces |-> <<>>,
   pod_count |-> 0, running_pods |-> 0, deployment_count |-> 0, service_count |-> 0,
   last_activity |-> Get(entry, "last_activity", <<>>),
   days_since_activity |-> calculate_days_since(Get(entry, "last_activity", <<>>))]

\* app_id in app_map; the map is kept as the sequence of its values in insertion order
InAppMap(appmap, app_id) == \E k \in 1..Len(appmap) : appmap[k].app_id = app_id

\* the lines that add a record to app = app_map[app_id]
AddEntry(app, entry) ==
  [app EXCEPT
     !.foundations = @ \cup {Get(entry, "foundation", "")},
     !.clusters = @ \cup {Get(entry, "cluster", "")},
     !.namespaces = Append(@, Get(entry, "namespace", <<>>)),
     !.pod_count = @ + Get(entry, "pod_count", 0),
     !.running_pods = @ + Get(entry, "running_pods", 0),
     !.deployment_count = @ + Get(entry, "deployment_count", 0),
     !.service_count = @ + Get(entry, "service_count", 0)]

\* one iteration of the loop over raw_data for a record that is not a system namespace
ClassifyEntry(appmap, entry) ==
  LET app_id == ClassifyAppId(entry)
      present == IF InAppMap(appmap, app_id) THEN appmap ELSE Append(appmap, NewClassified(entry))
  IN [k \in 1..Len(present) |->
        IF present[k].app_id = app_id THEN AddEntry(present[k], entry) ELSE present[k]]

\* the lists list(app["foundations"]) and list(app["clusters"]) can be
ClassifiedLists(app) ==
  {[foundations |-> f, clusters |-> c] : f \in Orderings(app.foundations), c \in Orderings(app.clusters)}

\* the inputs of classify_applications
ClassifyRecords ==
  {Base,
   [Base EXCEPT !.app_id = Unknown],
   [Base EXCEPT !.app_id = IdOther, !.namespace = NsApp12345, !.last_activity = TsOld],
   Without(Base, "app_id"),
   Without(Without(Base, "app_id"), "namespace"),
   [Base EXCEPT !.namespace = NsTwo, !.cluster = "cluster02", !.foundation = "dc02",
                !.pod_count = 3, !.running_pods = 3, !.last_activity = TsOld],
   [Base EXCEPT !.is_system = TRUE]}
  \cup ActivityRecords

ClassifyStreams == UNION {[1..n -> ClassifyRecords] : n \in 0..MaxRecords}

ClassifyInit ==
  /\ data \in ClassifyStreams
  /\ pc = "classify"
  /\ idx = 1
  /\ app_map = <<>>
  /\ ret = None
  /\ apps = <<>>
  /\ clusters = <<>>
  /\ arg = <<>>
  /\ summary = None
  /\ reports_dir = <<>>
  /\ foundation_data = <<>>
  /\ apps_df = None
  /\ foundation_stats = <<>>
  /\ clusters_df = None
  /\ migration_df = None
  /\ summary_df = None
  /\ saved = None
  /\ runs = <<>>

classifyRest == <<apps, clusters, summary, arg, conVars, runs>>

\* if entry.get("is_system", False): continue
ClassifySkipSystem ==
  /\ pc = "classify"
  /\ idx <= Len(data)
  /\ IsSystem(data[idx])
  /\ idx' = idx + 1
  /\ UNCHANGED <<data, pc, app_map, ret, classifyRest>>

ClassifyFold ==
  /\ pc = "classify"
  /\ idx <= Len(data)
  /\ ~IsSystem(data[idx])
  /\ app_map' = ClassifyEntry(app_map, data[idx])
  /\ idx' = idx + 1
  /\ UNCHANGED <<data, pc, ret, classifyRest>>

\* the loop over app_map.values() and the return
ClassifyReturn ==
  /\ pc = "classify"
  /\ idx > Len(data)
  /\ \E lists \in [1..Len(app_map) -> UNION {ClassifiedLists(app_map[k]) : k \in 1..Len(app_map)}] :
       /\ \A k \in 1..Len(app_map) : lists[k] \in ClassifiedLists(app_map[k])
       /\ ret' = Some([k \in 1..Len(app_map) |->
                         [app_map[k] EXCEPT !.foundations = lists[k].foundations,
                                            !.clusters = lists[k].clusters]])
  /\ pc' = "classified"
  /\ UNCHANGED <<data, idx, app_map, classifyRest>>

ClassifyNext ==
  \/ ClassifySkipSystem
  \/ ClassifyFold
  \/ ClassifyReturn

SpecClassify == ClassifyInit /\ [][ClassifyNext]_vars

(***************************************************************************)
(* Properties                                                              *)
(***************************************************************************)
RECURSIVE SumFn(_)
SumFn(fn) ==
  IF DOMAIN fn = {} THEN 0
  ELSE LET x == CHOOSE x \in DOMAIN fn : TRUE
       IN fn[x] + SumFn([y \in (DOMAIN fn) \ {x} |-> fn[y]])

\* the record is flagged as a system namespace
SystemRecord(r) == "is_system" \in DOMAIN r /\ r["is_system"]

\* aggregate_by_application has not raised
Running == pc \in {"app_fold", "cluster_fold", "done", "summarized"}
\* aggregate_by_application has returned its records
Finalized == pc \in {"cluster_fold", "done", "summarized"}

\* the indexes of the records the application pass has gone over
AppSeen == IF pc = "app_fold" THEN 1..(idx - 1) ELSE 1..Len(data)
\* those that contribute to the application a
Contributing(a) == {k \in AppSeen : ~SystemRecord(data[k]) /\ resolve_app_id(data[k]) = a}

\* the score as the sum of the deductions and bonuses, before clamping
ClaimedRawScore(app) ==
  LET days == Get(app, "days_since_activity", None)
      pods == app.running_pods
  IN 100
     - (IF app.is_active THEN 30 ELSE 0)
     - (IF pods > 10 THEN 20 ELSE IF pods > 5 THEN 10 ELSE 0)
     - (IF "production" \in {app.environments[k] : k \in 1..Len(app.environments)} THEN 20 ELSE 0)
     - (IF app.total_services > 5 THEN 10 ELSE 0)
     - (IF app.data_quality = "incomplete" THEN 15 ELSE 0)
     + (IF IsNone(days) THEN 0
        ELSE IF Val(days) > 60 THEN 20 ELSE IF Val(days) > 30 THEN 10 ELSE 0)

\* C1: every application record returned by aggregate_by_application has an integer
\* migration_readiness between 0 and 100, whatever its deductions and bonuses sum to.
C1_ReadinessBounded ==
  Finalized => \A a \in DOMAIN apps : apps[a].migration_readiness \in 0..100

\* a returned application whose deductions and bonuses sum above 100
C1_Witness ==
  /\ Finalized
  /\ \E a \in DOMAIN apps :
       ClaimedRawScore(apps[a]) > 100 /\ apps[a].migration_readiness = 100

\* the data_quality of every application after folding the records of stream in order
RECURSIVE QualityAfter(_)
QualityAfter(stream) ==
  IF stream = <<>> THEN <<>>
  ELSE LET before == QualityAfter(SubSeq(stream, 1, Len(stream) - 1))
           r == stream[Len(stream)]
       IN IF SystemRecord(r) THEN before
          ELSE LET folded == FoldApplication([a \in DOMAIN before |-> [NewApp EXCEPT !.data_quality = before[a]]], r)
               IN [a \in DOMAIN folded |-> folded[a].data_quality]

Reorderings(stream) ==
  {[k \in 1..Len(stream) |-> stream[p[k]]] : p \in Permutations(1..Len(stream))}

\* C2: once a record sets the data_quality of an application to incomplete no later
\* record changes it back, and the final data_quality of every application is the same
\* for every permutation of the input records.
C2_QualityMonotonic ==
  [][/\ \A a \in DOMAIN apps :
          apps[a].data_quality = "incomplete"
            => a \in DOMAIN apps' /\ apps'[a].data_quality = "incomplete"
     /\ (pc = "app_fold" /\ pc' = "cluster_fold")
          => \A other \in Reorderings(data) :
               QualityAfter(other) = [a \in DOMAIN apps' |-> apps'[a].data_quality]]_vars

\* a clean record was folded into an application that an earlier record made incomplete
C2_Witness ==
  /\ pc = "app_fold" /\ idx = 3
  /\ ~SystemRecord(data[1]) /\ ~SystemRecord(data[2])
  /\ resolve_app_id(data[1]) = resolve_app_id(data[2])
  /\ resolve_app_id(data[1]) # Unknown
  /\ Get(data[1], "labels", {}) = {}
  /\ Get(data[2], "labels", {}) # {}
  /\ apps[resolve_app_id(data[2])].data_quality = "incomplete"

\* C3: the total_pods of all application records plus the pod_count of the system
\* namespace records equals the total_pods of all cluster records.
C3_PodConservation ==
  pc = "done" =>
    SumFn([a \in DOMAIN apps |-> apps[a].total_pods])
    + SumFn([k \in {j \in 1..Len(data) : SystemRecord(data[j])} |-> Get(data[k], "pod_count", 0)])
    = SumFn([c \in DOMAIN clusters |-> clusters[c].total_pods])

\* a finished run over a system namespace with pods and an application namespace with pods
C3_Witness ==
  /\ pc = "done"
  /\ \E j, k \in 1..Len(data) :
       /\ SystemRecord(data[j]) /\ Get(data[j], "pod_count", 0) > 0
       /\ ~SystemRecord(data[k]) /\ Get(data[k], "pod_count", 0) > 0
  /\ SumFn([c \in DOMAIN clusters |-> clusters[c].total_pods])
       > SumFn([a \in DOMAIN apps |-> apps[a].total_pods])

\* C4: there is exactly one application record per resolved identifier, a later record
\* with a known identifier is folded into the existing record, and the app_id of each
\* record is the key it is stored under.
C4_OneRecordPerIdentifier ==
  Running =>
    /\ DOMAIN apps = {resolve_app_id(data[k]) : k \in {j \in AppSeen : ~SystemRecord(data[j])}}
    /\ \A a \in DOMAIN apps :
         /\ apps[a].app_id = Some(a)
         /\ Len(apps[a].namespaces) = Cardinality(Contributing(a))

\* two records of one identifier were folded into a single record
C4_Witness ==
  /\ pc = "app_fold" /\ idx = 3
  /\ ~SystemRecord(data[1]) /\ ~SystemRecord(data[2])
  /\ data[1].namespace # data[2].namespace
  /\ resolve_app_id(data[1]) = resolve_app_id(data[2])
  /\ Cardinality(DOMAIN apps) = 1
  /\ Len(apps[resolve_app_id(data[1])].namespaces) = 2

\* C5: total_pods, running_pods, total_deployments and total_services of an application
\* are the sums of pod_count, running_pods, deployment_count and service_count over the
\* records that resolved to it.
C5_RollupsAreSums ==
  Running =>
    \A a \in DOMAIN apps :
      /\ apps[a].total_pods = SumFn([k \in Contributing(a) |-> Get(data[k], "pod_count", 0)])
      /\ apps[a].running_pods = SumFn([k \in Contributing(a) |-> Get(data[k], "running_pods", 0)])
      /\ apps[a].total_deployments = SumFn([k \in Contributing(a) |-> Get(data[k], "deployment_count", 0)])
      /\ apps[a].total_services = SumFn([k \in Contributing(a) |-> Get(data[k], "service_count", 0)])

\* namespaces with 5 and 3 pods in dc01 and dc02 gave one record with 8 pods, 8 running,
\* two foundations and two clusters
C5_Witness ==
  /\ pc = "done"
  /\ Len(data) = 2
  /\ {Get(data[1], "pod_count", 0), Get(data[2], "pod_count", 0)} = {5, 3}
  /\ DOMAIN apps = {IdUpper}
  /\ apps[IdUpper].total_pods = 8
  /\ apps[IdUpper].running_pods = 8
  /\ {apps[IdUpper].foundations[k] : k \in 1..Len(apps[IdUpper].foundations)} = {"dc01", "dc02"}
  /\ Len(apps[IdUpper].foundations) = 2
  /\ Len(apps[IdUpper].clusters) = 2
  /\ apps[IdUpper].namespaces = <<NsOne, NsTwo>>
\* C6: an explicit application identifier other than 'unknown' is returned verbatim,
\* whatever the namespace name; the namespace name is used only when the identifier
\* is missing or 'unknown'.
C6_ExplicitIdVerbatim ==
  pc = "return" =>
    IF "app_id" \in DOMAIN arg /\ arg["app_id"] # Unknown
    THEN ret = Some(arg["app_id"])
    ELSE ret = Some(extract_app_id_from_name(arg["namespace"]))

\* an explicit upper-case identifier was returned although the namespace name matches
\* the first pattern
C6_Witness ==
  /\ pc = "return"
  /\ "app_id" \in DOMAIN arg
  /\ arg["app_id"] = IdUpper
  /\ arg["namespace"] = NsApp12345
  /\ ret = Some(IdUpper)
  /\ ret # Some(IdLower)
  /\ ret # Some(extract_app_id_from_name(arg["namespace"]))

\* the numeric token that starts at position start: the whole run of digits
NumericToken(s, start) == SubSeq(s, start, start + RunLen(s, start, Digit) - 1)
TokenOk(tok) == Len(tok) >= 4 /\ Len(tok) <= 6

\* the identifier the ordered heuristics give for a namespace name
ClaimedDerivedId(s) ==
  LET a == RunLen(s, 1, Alpha)
      hyphen1 == a >= 1 /\ a + 1 <= Len(s) /\ s[a + 1] = "-"
      b == IF hyphen1 THEN RunLen(s, a + 2, Alpha) ELSE 0
      hyphen2 == hyphen1 /\ b >= 1 /\ a + b + 2 <= Len(s) /\ s[a + b + 2] = "-"
  IN IF hyphen1 /\ TokenOk(NumericToken(s, a + 2))
     THEN SubSeq(s, 1, a) \o Hyphen \o NumericToken(s, a + 2)
     ELSE IF hyphen2 /\ TokenOk(NumericToken(s, a + b + 3))
     THEN SubSeq(s, 1, a + b + 1)
     ELSE IF HasHyphen(s)
     THEN FirstPart(s)
     ELSE Unknown

\* C7: without an explicit identifier the identifier is derived from the namespace name by
\* the ordered heuristics, a numeric token shorter than 4 or longer than 6 digits matching
\* neither numeric rule.
C7_DerivedIdentifier ==
  (pc = "return" /\ "app_id" \notin DOMAIN arg)
    => ret = Some(ClaimedDerivedId(arg["namespace"]))

\* C8: a system namespace record leaves every application record as it is, and adds one
\* to total_namespaces and system_namespaces and its pod counts to the record of its cluster.
C8_SystemNamespaces ==
  [][(idx <= Len(data) /\ SystemRecord(data[idx])) =>
       /\ pc = "app_fold" => apps' = apps
       /\ pc = "cluster_fold" =>
            LET c == ClusterName(data[idx])
                old == Get(clusters, c, NewCluster)
            IN /\ c \in DOMAIN clusters'
               /\ clusters'[c].total_namespaces = old.total_namespaces + 1
               /\ clusters'[c].system_namespaces = old.system_namespaces + 1
               /\ clusters'[c].app_namespaces = old.app_namespaces
               /\ clusters'[c].total_pods = old.total_pods + Get(data[idx], "pod_count", 0)
               /\ clusters'[c].running_pods = old.running_pods + Get(data[idx], "running_pods", 0)]_vars

\* both passes went over an application namespace and then a system namespace of the same
\* cluster that carries an application identifier and pods
C8_Witness ==
  /\ pc = "cluster_fold" /\ idx = 3
  /\ ~SystemRecord(data[1]) /\ SystemRecord(data[2])
  /\ "app_id" \in DOMAIN data[2] /\ Get(data[2], "pod_count", 0) > 0
  /\ ClusterName(data[1]) = ClusterName(data[2])
  /\ clusters[ClusterName(data[2])].system_namespaces = 1
  /\ clusters[ClusterName(data[2])].total_namespaces = 2
  /\ Cardinality(DOMAIN apps) = 1
  /\ \A a \in DOMAIN apps : apps[a].namespaces = <<data[1].namespace>>

\* C9: the readiness score of a finalized application is the sum of the deductions and
\* bonuses clamped to 0..100, with no bonus when days_since_activity is unknown.
C9_ScoreFormula ==
  Finalized =>
    \A a \in DOMAIN apps :
      apps[a].migration_readiness = Max2(0, Min2(100, ClaimedRawScore(apps[a])))

\* an active production application with 12 running pods and 6 services scored 20, and an
\* application inactive for 75 days with 2 running pods and 1 service scored 100
C9_Witness ==
  /\ Finalized
  /\ \E a, b \in DOMAIN apps :
       /\ apps[a].is_active /\ apps[a].running_pods = 12 /\ apps[a].total_services = 6
       /\ apps[a].environments = <<"production">> /\ apps[a].data_quality = "good"
       /\ apps[a].migration_readiness = 20
       /\ ~apps[b].is_active /\ apps[b].running_pods = 2 /\ apps[b].total_services = 1
       /\ apps[b].environments = <<"lab">> /\ apps[b].data_quality = "good"
       /\ apps[b].days_since_activity = Some(75)
       /\ apps[b].migration_readiness = 100

\* C10: after finalization every application record carries days_since_activity, the day
\* difference to now or an unknown marker when no valid timestamp was recorded, and
\* is_active holds exactly when a valid timestamp was recorded and the difference is
\* at most 30 days.
C10_ActivityDerived ==
  Finalized =>
    \A a \in DOMAIN apps :
      LET valid == ~IsNone(apps[a].last_activity)
                   /\ ~IsNone(fromisoformat(Val(apps[a].last_activity)))
      IN /\ "days_since_activity" \in DOMAIN apps[a]
         /\ IF valid
            THEN apps[a]["days_since_activity"]
                   = Some(DaysSince(Val(fromisoformat(Val(apps[a].last_activity)))))
            ELSE apps[a]["days_since_activity"] \in {None, Some(999)}
         /\ apps[a].is_active <=> (valid /\ Val(apps[a]["days_since_activity"]) <= 30)

\* the record carries a last_activity: the key is there, not empty and not 'unknown'
CarriesActivity(r) == "last_activity" \in DOMAIN r /\ r["last_activity"] \notin {<<>>, Unknown}

\* C11: the stored last_activity of an application is the lexically greatest of the
\* last_activity values its contributing records carry, and is absent only when none of
\* them carries one, whatever the order of the records.
C11_LatestActivity ==
  Running =>
    \A a \in DOMAIN apps :
      LET carried == {data[k]["last_activity"] : k \in {j \in Contributing(a) : CarriesActivity(data[j])}}
      IN IF carried = {}
         THEN IsNone(apps[a].last_activity)
         ELSE /\ ~IsNone(apps[a].last_activity)
              /\ Val(apps[a].last_activity) \in carried
              /\ \A other \in carried : ~StrGreater(other, Val(apps[a].last_activity))

\* an earlier timestamp was folded into an application after a later one and did not
\* replace it
C11_Witness ==
  /\ pc = "app_fold" /\ idx = 3
  /\ ~SystemRecord(data[1]) /\ ~SystemRecord(data[2])
  /\ resolve_app_id(data[1]) = resolve_app_id(data[2])
  /\ CarriesActivity(data[1]) /\ CarriesActivity(data[2])
  /\ StrGreater(data[1]["last_activity"], data[2]["last_activity"])
  /\ apps[resolve_app_id(data[1])].last_activity = Some(data[1]["last_activity"])

\* the finalization step applied to a finalized record: list() of a list keeps its order
Refinalize(app) ==
  FinalizeApp(app, [foundations |-> app.foundations, environments |-> app.environments,
                    clusters |-> app.clusters])

\* C12: applying the finalization step a second time to a finalized application record
\* leaves every field, migration_readiness included, unchanged.
C12_FinalizeIdempotent ==
  Finalized => \A a \in DOMAIN apps : Refinalize(apps[a]) = apps[a]

\* a finalized active application, whose score depends on the derived fields
C12_Witness ==
  /\ Finalized
  /\ \E a \in DOMAIN apps :
       /\ apps[a].is_active
       /\ "days_since_activity" \in DOMAIN apps[a]
       /\ apps[a].migration_readiness < 100
       /\ Refinalize(apps[a]) = apps[a]

\* the environments an application's record lists
EnvironmentsOf(app) == {app.environments[k] : k \in 1..Len(app.environments)}

\* C20: the summary counts applications per environment category by membership in the
\* application's environment set, so an application with production and a
\* non-production environment is counted in the production count and in the
\* non-production count.
C20_EnvironmentCounts ==
  pc = "summarized" =>
    LET totals == Val(summary).totals
    IN /\ totals.production_applications =
            Cardinality({a \in DOMAIN apps : "production" \in EnvironmentsOf(apps[a])})
       /\ totals.nonproduction_applications =
            Cardinality({a \in DOMAIN apps : EnvironmentsOf(apps[a]) \ {"production"} # {}})

\* the foundations of foundation_data whose file of the kind loads
LoadedEntries(kind) ==
  {k \in 1..Len(foundation_data) :
     /\ ~IsNone(foundation_data[k].files[kind])
     /\ Val(foundation_data[k].files[kind]).columns # <<>>}

\* the rows of the source files of the kind that load, as <<foundation, row>> positions
SourceRowIds(kind) ==
  UNION {{<<k, r>> : r \in 1..Len(Val(foundation_data[k].files[kind]).rows)} : k \in LoadedEntries(kind)}

\* what a row says: its cells by normalized header, the foundation column and the empty
\* cells left aside
RowContent(columns, row) ==
  {<<NormalizeColumn(columns[c]), row[c]>> :
     c \in {j \in 1..Len(columns) : row[j] # NaN /\ NormalizeColumn(columns[j]) # ColFoundation}}

SourceContent(kind, id) ==
  LET file == Val(foundation_data[id[1]].files[kind])
  IN RowContent(file.columns, file.rows[id[2]])

\* the dataset has one row for every row of the source files of the kind, with its values
ExactlySourceRows(df, kind) ==
  /\ Len(df.rows) = Cardinality(SourceRowIds(kind))
  /\ \A id \in SourceRowIds(kind) :
       Cardinality({r \in 1..Len(df.rows) : RowContent(df.columns, df.rows[r]) = SourceContent(kind, id)})
         = Cardinality({other \in SourceRowIds(kind) : SourceContent(kind, other) = SourceContent(kind, id)})

\* C13: for each kind of dataset (applications, clusters, migration priority) the
\* consolidated dataset holds exactly the rows of every foundation whose file of that kind
\* loaded: its row count is the sum of theirs, and an application reported by two
\* foundations has two rows.
C13_RowsPreserved ==
  /\ pc = "con_clusters" => ExactlySourceRows(Val(apps_df), "applications")
  /\ pc = "con_migration" => ExactlySourceRows(Val(clusters_df), "clusters")
  /\ pc = "con_summary" => ExactlySourceRows(Val(migration_df), "migration_priority")

\* two foundations report the same applications and the dataset has a row for each report
C13_Witness ==
  /\ pc = "con_done"
  /\ Cardinality(LoadedEntries("applications")) = 2
  /\ \E a, b \in SourceRowIds("applications") :
       /\ a[1] # b[1]
       /\ SourceContent("applications", a) = SourceContent("applications", b)
       /\ Cardinality({r \in 1..Len(Val(apps_df).rows) :
            RowContent(Val(apps_df).columns, Val(apps_df).rows[r]) = SourceContent("applications", a)}) = 2
  /\ Len(Val(migration_df).rows) = 4 /\ Len(Val(clusters_df).rows) = 4

ColApplicationId == <<"a", "p", "p", "l", "i", "c", "a", "t", "i", "o", "n", "_", "i", "d">>
ColMigrationScore == <<"m", "i", "g", "r", "a", "t", "i", "o", "n", "_", "s", "c", "o", "r", "e">>
ColMigrationReadinessScore == <<"m", "i", "g", "r", "a", "t", "i", "o", "n", "_", "r", "e", "a", "d", "i", "n", "e", "s", "s", "_", "s", "c", "o", "r", "e">>

\* the first cell of the row that is not empty among the columns of the labels
RECURSIVE FirstCell(_, _, _)
FirstCell(df, row, labels) ==
  IF labels = <<>> THEN NaN
  ELSE IF HasColumn(df, Head(labels)) /\ Cell(df, row, Head(labels)) # NaN
  THEN Cell(df, row, Head(labels))
  ELSE FirstCell(df, row, Tail(labels))

\* the application identifier of a row, under either heading of the identifier column
ApplicationIdentifier(df, row) == FirstCell(df, row, <<ColAppId, ColApplicationId>>)

\* the readiness score of a row, under any of the headings of the score column
ReadinessScore(df, row) ==
  FirstCell(df, row, <<ColMigrationReadiness, ColMigrationScore, ColMigrationReadinessScore>>)

\* the rows of an applications frame ascend by foundation and then by application identifier
SortedByFoundationAndId(df) ==
  \A r, t \in 1..Len(df.rows) :
    r < t =>
      LET fr == Cell(df, df.rows[r], ColFoundation)
          ft == Cell(df, df.rows[t], ColFoundation)
      IN /\ ~TextBefore(ft, fr)
         /\ fr = ft => ~TextBefore(ApplicationIdentifier(df, df.rows[t]),
                                   ApplicationIdentifier(df, df.rows[r]))

\* C14: the consolidated applications dataset is sorted ascending by foundation and then
\* by application identifier, also when the identifier column of the reports is headed
\* 'Application ID'.
C14_ApplicationsSorted ==
  pc = "con_clusters" => SortedByFoundationAndId(Val(apps_df))

\* C15: the consolidated migration priority dataset is sorted by readiness score
\* descending and then by foundation ascending, also when the score column of the reports
\* is headed 'Migration Score' or 'Migration Readiness Score'.
C15_MigrationSorted ==
  pc = "con_summary" =>
    LET df == Val(migration_df)
    IN \A r, t \in 1..Len(df.rows) :
         r < t =>
           LET sr == ReadinessScore(df, df.rows[r])
               st == ReadinessScore(df, df.rows[t])
           IN /\ ~NumberDescBefore(st, sr)
              /\ sr = st => ~TextBefore(Cell(df, df.rows[t], ColFoundation),
                                        Cell(df, df.rows[r], ColFoundation))

\* C16: the summary has one row for every foundation that supplied application data and
\* exactly one TOTAL row, and the Total_Applications of the TOTAL row is the sum of the
\* foundations' Total_Applications and the number of rows of the consolidated applications
\* dataset, also when a source file carries its own Foundation column.
C16_SummaryTotals ==
  pc = "con_save" =>
    LET rows == Val(summary_df)
        n == Len(rows) - 1
    IN /\ n = Cardinality(LoadedEntries("applications"))
       /\ \A k \in LoadedEntries("applications") :
            Cardinality({j \in 1..n : rows[j].Foundation = foundation_data[k].foundation}) = 1
       /\ rows[n + 1].Foundation = Total
       /\ \A j \in 1..n : rows[j].Foundation # Total
       /\ rows[n + 1].Total_Applications = SumRows(SubSeq(rows, 1, n), "Total_Applications")
       /\ rows[n + 1].Total_Applications = Len(Val(apps_df).rows)

\* C17: every consolidated dataset has exactly one column named foundation: a foundation
\* header of the source, in any casing or spacing, is kept, the column is injected only
\* when the source has none, and never as a second one.
C17_OneFoundationColumn ==
  \A df \in {apps_df, clusters_df, migration_df} :
    (~IsNone(df) /\ ~IsEmptyFrame(Val(df))) => Cardinality(ColumnsNamed(Val(df), ColFoundation)) = 1

\* C18: the consolidation fails if and only if no foundation produced loadable application
\* data; a missing or unloadable file is passed over for its kind only, and a kind that no
\* foundation supplies gives an empty dataset without failing the run.
C18_FailsOnlyWithoutApplications ==
  /\ pc = "con_failed" => LoadedEntries("applications") = {}
  /\ pc = "con_done" => LoadedEntries("applications") # {}
  /\ (pc = "con_migration" /\ LoadedEntries("clusters") = {}) => clusters_df = Some(EmptyFrame)
  /\ (pc = "con_summary" /\ LoadedEntries("migration_priority") = {}) => migration_df = Some(EmptyFrame)

\* df.to_csv(path, index=False)
to_csv(df, path) == [path |-> path, columns |-> df.columns, rows |-> df.rows]

\* the consolidation of the applications dataset a consolidation wrote, as the report of
\* the same foundation
Reconsolidated(df, foundation) ==
  load_and_combine_applications(
    <<[foundation |-> foundation,
       files |-> CsvFiles(Some(to_csv(df, "application_report_again.csv")), None, None, None)]>>)

\* C19: consolidating the reports of a single foundation gives the rows and values of its
\* application report, with the foundation column, in the order by foundation and
\* application identifier, and consolidating the result again gives the same content.
C19_SingleFoundationRoundTrip ==
  (pc = "con_clusters" /\ Len(foundation_data) = 1) =>
    LET df == Val(apps_df)
        again == Reconsolidated(df, foundation_data[1].foundation)
    IN /\ ExactlySourceRows(df, "applications")
       /\ \A r \in 1..Len(df.rows) : Cell(df, df.rows[r], ColFoundation) # NaN
       /\ SortedByFoundationAndId(df)
       /\ ~again.raised
       /\ again.df = df

\* C21: in the summary active + inactive is the number of applications,
\* ready_for_migration is the number of applications with migration_readiness >= 70,
\* needs_metadata_analysis is the number with data_quality incomplete, and total_pods is
\* the sum of total_pods over the cluster records.
C21_SummaryCounts ==
  pc = "summarized" =>
    LET s == Val(summary)
    IN /\ s.totals.applications = Cardinality(DOMAIN apps)
       /\ s.totals.active_applications + s.totals.inactive_applications = s.totals.applications
       /\ s.totals.active_applications = Cardinality({a \in DOMAIN apps : apps[a].is_active})
       /\ s.migration.ready_for_migration
            = Cardinality({a \in DOMAIN apps : apps[a].migration_readiness >= 70})
       /\ s.migration.needs_metadata_analysis
            = Cardinality({a \in DOMAIN apps : apps[a].data_quality = "incomplete"})
       /\ s.totals.total_pods = SumFn([c \in DOMAIN clusters |-> clusters[c].total_pods])

\* a summary over two applications, one with a readiness of exactly 70 and one with
\* incomplete metadata, and clusters with pods
C21_Witness ==
  /\ pc = "summarized"
  /\ \E a, b \in DOMAIN apps :
       /\ apps[a].migration_readiness = 70
       /\ apps[b].data_quality = "incomplete" /\ apps[b].migration_readiness < 70
  /\ Val(summary).migration.ready_for_migration = 1
  /\ Val(summary).migration.needs_metadata_analysis = 1
  /\ Val(summary).totals.total_pods > 0

\* C22: the per-foundation breakdown of the summary has an entry for every foundation
\* identifier that occurs in the foundation set of some application; in each entry,
\* applications is the number of application records whose foundation set contains the
\* identifier, and active + inactive = applications.
C22_FoundationBreakdown ==
  pc = "summarized" =>
    LET by_foundation == Val(summary).by_foundation
        FoundationsOf(a) == {apps[a].foundations[k] : k \in 1..Len(apps[a].foundations)}
    IN /\ \A a \in DOMAIN apps : FoundationsOf(a) \subseteq DOMAIN by_foundation
       /\ \A f \in DOMAIN by_foundation :
            /\ by_foundation[f].applications
                 = Cardinality({a \in DOMAIN apps : f \in FoundationsOf(a)})
            /\ by_foundation[f].active + by_foundation[f].inactive = by_foundation[f].applications

\* the records of the stream that carry an identifier, explicit or derivable, and labels
WellLabelled(r) ==
  /\ "labels" \in DOMAIN r /\ r["labels"] # {}
  /\ resolve_app_id(r) # Unknown

\* C23: in every state of the fold and after finalization the data_quality of an
\* application record is one of complete, partial and incomplete, and an application
\* whose contributing records all carry a resolved identifier and labels ends as complete.
C23_DataQualityEnum ==
  Running =>
    \A a \in DOMAIN apps :
      /\ apps[a].data_quality \in {"complete", "partial", "incomplete"}
      /\ (Finalized /\ \A k \in Contributing(a) : WellLabelled(data[k]))
           => apps[a].data_quality = "complete"

\* the records the cluster pass has folded
ClusterSeen == IF pc = "cluster_fold" THEN 1..(idx - 1)
               ELSE IF pc \in {"done", "summarized"} THEN 1..Len(data) ELSE {}

\* the identifiers in the application set of a cluster record, a set while the pass runs
\* and a list once it has returned
ClusterApplications(c) ==
  IF pc = "cluster_fold" THEN clusters[c].applications
  ELSE {clusters[c].applications[k] : k \in 1..Len(clusters[c].applications)}

\* C24: for every record that is not a system namespace and whose resolved application
\* identifier, explicit or derived from the namespace name, is not 'unknown', the
\* identifier is in the application set of the record's cluster; hence every application
\* record other than 'unknown' that lists a cluster is in that cluster's application set.
C24_ClusterListsApplications ==
  /\ \A k \in ClusterSeen :
       (~SystemRecord(data[k]) /\ resolve_app_id(data[k]) # Unknown)
         => resolve_app_id(data[k]) \in ClusterApplications(ClusterName(data[k]))
  /\ pc \in {"done", "summarized"} =>
       \A a \in DOMAIN apps : \A j \in 1..Len(apps[a].clusters) :
         a # Unknown => a \in ClusterApplications(apps[a].clusters[j])

\* C25: for every cluster record, after any prefix of the stream, total_namespaces is
\* system_namespaces + app_namespaces and the number of records seen for the cluster's
\* key; after finalization application_count is the number of distinct identifiers in
\* applications and at most app_namespaces.
C25_ClusterCounts ==
  \A c \in DOMAIN clusters :
    /\ clusters[c].total_namespaces = clusters[c].system_namespaces + clusters[c].app_namespaces
    /\ clusters[c].total_namespaces = Cardinality({k \in ClusterSeen : ClusterName(data[k]) = c})
    /\ pc \in {"done", "summarized"} =>
         /\ clusters[c]["application_count"] = Cardinality(ClusterApplications(c))
         /\ clusters[c]["application_count"] = Len(clusters[c].applications)
         /\ clusters[c]["application_count"] <= clusters[c].app_namespaces

\* a finalized cluster with a system namespace and the namespace of an application
C25_Witness ==
  /\ pc = "done"
  /\ \E c \in DOMAIN clusters :
       /\ clusters[c].system_namespaces = 1
       /\ clusters[c].app_namespaces = 1
       /\ clusters[c].total_namespaces = 2
       /\ clusters[c]["application_count"] = 1

\* the record is no system namespace and lacks the namespace name
Malformed(r) == ~SystemRecord(r) /\ RaisesKeyError(r)

\* C26: a malformed raw record, such as one that is no system namespace and lacks the
\* namespace name, is skipped and never aborts the run: the application and cluster
\* records are those of the other records of the stream.
C26_MalformedSkipped ==
  /\ pc # "error"
  /\ Finalized =>
       DOMAIN apps = {resolve_app_id(data[k]) :
                        k \in {j \in 1..Len(data) : ~SystemRecord(data[j]) /\ ~Malformed(data[j])}}
  /\ pc \in {"done", "summarized"} =>
       DOMAIN clusters = {ClusterName(data[k]) : k \in {j \in 1..Len(data) : ~Malformed(data[j])}}

\* the timestamps the contributing records of an application carry
CarriedActivity(a) ==
  {data[k]["last_activity"] : k \in {j \in Contributing(a) : CarriesActivity(data[j])}}

\* C27: a last_activity that is no ISO-8601 timestamp never aborts the aggregation and
\* never displaces a valid one: an application with malformed timestamps only is
\* finalized as inactive with unknown days_since_activity, and an application that also
\* has a valid timestamp of the last 30 days is finalized as active.
C27_MalformedTimestamp ==
  Finalized =>
    \A a \in DOMAIN apps :
      LET valid == {t \in CarriedActivity(a) : ~IsNone(fromisoformat(t))}
          malformed == CarriedActivity(a) \ valid
      IN /\ (valid = {} /\ malformed # {}) =>
              (~apps[a].is_active /\ Get(apps[a], "days_since_activity", None) = None)
         /\ (\E t \in valid : DaysSince(Val(fromisoformat(t))) <= 30) => apps[a].is_active


(***************************************************************************)
(* Two runs                                                                *)
(***************************************************************************)
\* run r has returned from aggregate_by_application
RunFinalized(r) == runs[r].pc \in {"cluster_fold", "done"}

\* the records of a stream that contribute to the application a, in input order
ContributingRecords(stream, a) ==
  LET Contributes(rec) == ~SystemRecord(rec) /\ resolve_app_id(rec) = a
  IN SelectSeq(stream, Contributes)

Elements(q) == {q[k] : k \in 1..Len(q)}
NoRepeats(q) == \A j, k \in 1..Len(q) : q[j] = q[k] => j = k

\* the two streams hold the same records the same number of times
SameRecords(s, t) ==
  \A rec \in Elements(s) \cup Elements(t) :
     Cardinality({k \in 1..Len(s) : s[k] = rec}) = Cardinality({k \in 1..Len(t) : t[k] = rec})

\* the membership lists of a finalized record hold what its records contributed, once each
MembershipOnce(r) ==
  \A a \in DOMAIN runs[r].apps :
     LET app == runs[r].apps[a]
         recs == ContributingRecords(runs[r].data, a)
     IN /\ NoRepeats(app.foundations) /\ NoRepeats(app.environments) /\ NoRepeats(app.clusters)
        /\ Elements(app.foundations) = {Get(recs[k], "foundation", "unknown") : k \in 1..Len(recs)}
        /\ Elements(app.environments) = {Get(recs[k], "environment", "unknown") : k \in 1..Len(recs)}
        /\ Elements(app.clusters) = {ClusterName(recs[k]) : k \in 1..Len(recs)}

\* namespaces has one entry per contributing record, in input order
NamespacesInInputOrder(r) ==
  \A a \in DOMAIN runs[r].apps :
     LET recs == ContributingRecords(runs[r].data, a)
     IN runs[r].apps[a].namespaces = [k \in 1..Len(recs) |-> recs[k]["namespace"]]

\* two runs over the same records emit the same membership sequences
SameLists ==
  (RunFinalized(1) /\ RunFinalized(2) /\ SameRecords(runs[1].data, runs[2].data))
  => \A a \in (DOMAIN runs[1].apps) \cap (DOMAIN runs[2].apps) :
        /\ runs[1].apps[a].foundations = runs[2].apps[a].foundations
        /\ runs[1].apps[a].environments = runs[2].apps[a].environments
        /\ runs[1].apps[a].clusters = runs[2].apps[a].clusters

\* C28: the foundations, environments and clusters of a finalized application record hold each
\* contributed identifier exactly once and are emitted in a deterministic order (two runs over
\* the same multiset of records, in any order, emit the same sequences); namespaces has one
\* entry per contributing record, in input order.
C28_DeterministicLists ==
  /\ \A r \in RunIds : RunFinalized(r) => MembershipOnce(r) /\ NamespacesInInputOrder(r)
  /\ SameLists

\* aggregate_by_application over the first k records of a stream, run on its own: the
\* accumulator map and whether the pass has raised
RECURSIVE AppPass(_, _)
AppPass(stream, k) ==
  IF k = 0 THEN [raised |-> FALSE, apps |-> <<>>]
  ELSE LET before == AppPass(stream, k - 1)
           ns_data == stream[k]
       IN IF before.raised THEN before
          ELSE IF IsSystem(ns_data) THEN before
          ELSE IF RaisesKeyError(ns_data)
               THEN [raised |-> TRUE, apps |-> RaisedIn(before.apps, ns_data)]
               ELSE [raised |-> FALSE, apps |-> FoldApplication(before.apps, ns_data)]

\* the maps aggregate_by_application can return for an accumulator map
AppResults(appmap) ==
  {[a \in DOMAIN appmap |-> FinalizeApp(appmap[a], lists[a])] :
     lists \in {l \in [DOMAIN appmap -> UNION {ListChoices(appmap[a]) : a \in DOMAIN appmap}] :
                  \A a \in DOMAIN appmap : l[a] \in ListChoices(appmap[a])}}

\* aggregate_by_cluster over the first k records of a stream, run on its own
RECURSIVE ClusterPass(_, _)
ClusterPass(stream, k) ==
  IF k = 0 THEN <<>> ELSE FoldCluster(ClusterPass(stream, k - 1), stream[k])

\* the maps aggregate_by_cluster can return for an accumulator map
ClusterResults(clustermap) ==
  {[c \in DOMAIN clustermap |-> FinalizeCluster(clustermap[c], lists[c])] :
     lists \in {l \in [DOMAIN clustermap ->
                         UNION {Orderings(clustermap[c].applications) : c \in DOMAIN clustermap}] :
                  \A c \in DOMAIN clustermap : l[c] \in Orderings(clustermap[c].applications)}}

\* run r holds what a run over its own input alone holds at the same position
AsAlone(r) ==
  LET run == runs[r]
      n == Len(run.data)
  IN /\ run.pc = "app_fold" => /\ ~AppPass(run.data, run.idx - 1).raised
                               /\ run.apps = AppPass(run.data, run.idx - 1).apps
     /\ run.pc = "error" => /\ AppPass(run.data, run.idx).raised
                            /\ run.apps = AppPass(run.data, run.idx).apps
     /\ run.pc \in {"cluster_fold", "done"} => /\ ~AppPass(run.data, n).raised
                                               /\ run.apps \in AppResults(AppPass(run.data, n).apps)
     /\ run.pc = "app_fold" => run.clusters = <<>>
     /\ run.pc = "cluster_fold" => run.clusters = ClusterPass(run.data, run.idx - 1)
     /\ run.pc = "done" => run.clusters \in ClusterResults(ClusterPass(run.data, n))

\* C29: two aggregation runs over independent inputs whose fold steps interleave in any way
\* each produce exactly the records they produce when run alone.
C29_RunsIndependent == \A r \in RunIds : AsAlone(r)

\* both runs are under way at once over different inputs: run 1 has folded the first of its
\* two records, run 2 has returned its application records and is in its cluster pass
C29_Witness ==
  /\ runs[1].data # runs[2].data
  /\ Len(runs[1].data) = 2 /\ Len(runs[2].data) = 2
  /\ runs[1].pc = "app_fold" /\ runs[1].idx = 2 /\ DOMAIN runs[1].apps # {}
  /\ runs[2].pc = "cluster_fold" /\ runs[2].idx = 2 /\ DOMAIN runs[2].apps # {}


(***************************************************************************)
(* classify_applications                                                   *)
(***************************************************************************)
\* the records of the input that contribute to the application app_id
ClassifiedFrom(app_id) ==
  {k \in 1..Len(data) : ~SystemRecord(data[k]) /\ ClassifyAppId(data[k]) = app_id}

\* the most recent last_activity of the application is fewer than 30 days before now
RecentlyActive(app_id) ==
  \E k \in ClassifiedFrom(app_id) :
     LET timestamp == fromisoformat(Get(data[k], "last_activity", <<>>))
     IN ~IsNone(timestamp) /\ DaysSince(Val(timestamp)) < 30

\* the returned list has one entry per distinct identifier among the non-system records
OneEntryPerApplication ==
  LET applications == Val(ret)
  IN /\ \A j, k \in 1..Len(applications) : applications[j].app_id = applications[k].app_id => j = k
     /\ {applications[k].app_id : k \in 1..Len(applications)}
          = {ClassifyAppId(data[k]) : k \in {j \in 1..Len(data) : ~SystemRecord(data[j])}}

\* C30: classify_applications returns one entry per distinct application identifier among the
\* non-system records, and the status of an entry is Active exactly when the most recent
\* last_activity over all its contributing records is fewer than 30 days before now, otherwise
\* Inactive, whatever the order of the records.
C30_ClassifyStatus ==
  pc = "classified" =>
    /\ OneEntryPerApplication
    /\ \A k \in 1..Len(Val(ret)) :
          Val(ret)[k].status = (IF RecentlyActive(Val(ret)[k].app_id) THEN "Active" ELSE "Inactive")

====
